---- MODULE Spec2Model ----
(***************************************************************************)
(* Multi-tenant SaaS backend (voho): tenant resolution, JWT authentication *)
(* with the cross-tenant check, signup / login, and the call lifecycle     *)
(* reconciled against the external call provider.                          *)
(*                                                                         *)
(* The document store is the state: tenants, users, calls and the audit    *)
(* log.  Every HTTP request occupies a slot of reqs and advances through   *)
(* the express middleware chain and its route handler; each await on the   *)
(* store or the provider that another request can interleave with is a     *)
(* separate step.                                                          *)
(***************************************************************************)
EXTENDS Integers, Sequences, FiniteSets, TLC

VARIABLES
    tenants,    \* Tenant collection: _id -> [subdomain, isActive, branding]
    users,      \* User collection:   _id -> [email, password, tenantId, role, isActive]
    calls,      \* Call collection:   _id -> [tenantId, userId, status, events, ...]
    audit,      \* AuditLog collection, in insertion order
    reqs,       \* in-flight HTTP requests: slot -> request record
    tenantSeq,  \* number of Tenant _ids handed out so far (ids are never reused)
    clock       \* readings of Date.now taken so far for event timestamps

vars == <<tenants, users, calls, audit, reqs, tenantSeq, clock>>

(***************************************************************************)
(* Bounds of the model.                                                    *)
(***************************************************************************)
MaxSignups == 2     \* Tenant documents created by signups
MaxNewCalls == 1    \* Call documents created by createCall
MaxAudit == 3       \* audit entries after which no new request is accepted
MaxAudited == 2     \* the same, where every audited operation runs in one specification
MaxEvents == 2      \* status events stored, after which polls change nothing

\* undefined / null: req.tenantId, req.userId, a findOne that matches nothing
None == 0

Slots == {1, 2}
SeqSlots == {1}


(***************************************************************************)
(* Token Service (utils/jwt.js).  A token is its payload and what          *)
(* jwt.verify makes of it: "valid", "expired" (exp has passed) or "badsig" *)
(* (not signed with JWT_SECRET).  kind "none" is a missing header.         *)
(***************************************************************************)
NoToken == [kind |-> "none", userId |-> None, tenantId |-> None]

generateToken(userId, tenantId) ==
    [kind |-> "valid", userId |-> userId, tenantId |-> tenantId]

\* mutant of verifyToken: an expired token is reported as a malformed one
verifyTokenOneError(token) ==
    IF token.kind \in {"badsig", "expired"}
    THEN [err |-> "JsonWebTokenError", userId |-> None, tenantId |-> None]
    ELSE [err |-> "none", userId |-> token.userId, tenantId |-> token.tenantId]

verifyToken(token) ==
    CASE token.kind = "badsig"  -> [err |-> "JsonWebTokenError", userId |-> None, tenantId |-> None]
      [] token.kind = "expired" -> [err |-> "TokenExpiredError", userId |-> None, tenantId |-> None]
      [] OTHER -> [err |-> "none", userId |-> token.userId, tenantId |-> token.tenantId]

(***************************************************************************)
(* Document store queries.                                                 *)
(***************************************************************************)
\* Tenant.findOne({ subdomain [, isActive: true] }): subdomain has a unique index
TenantFindOne(subdomain, activeOnly) ==
    LET m == {t \in DOMAIN tenants :
                /\ tenants[t].subdomain = subdomain
                /\ (activeOnly => tenants[t].isActive)}
    IN IF m = {} THEN None ELSE CHOOSE t \in m : TRUE

\* Tenant.findById(id); findById(undefined) finds nothing
TenantFindById(id) == IF id \in DOMAIN tenants THEN id ELSE None

\* User.findById(id)
UserFindById(id) == IF id \in DOMAIN users THEN id ELSE None

\* A filter { tenantId: q } matches the documents whose tenantId equals q; an
\* undefined q is sent to the store as null and matches no document, since
\* every stored document carries a tenantId.
MatchTenant(docTenantId, q) == q # None /\ docTenantId = q

(***************************************************************************)
(* Audit Sink (utils/auditLogger.js, models/AuditLog.js).                  *)
(***************************************************************************)
AuditActions ==
    {"user.login", "user.logout", "user.signup", "user.failed_login",
     "tenant.created", "tenant.updated", "call.created", "call.completed",
     "branding.updated", "data.accessed"}

\* auditLogSchema validation: tenantId is required, action is in the enum
AuditValid(entry) == entry.tenantId # None /\ entry.action \in AuditActions

\* mutant of logAudit: the entry is stored although the write failed
logAuditUnguarded(log, entry, storeOk) ==
    IF AuditValid(entry) THEN Append(log, entry) ELSE log

\* logAudit: AuditLog.create inside try/catch; a failed write is only logged
logAudit(log, entry, storeOk) ==
    IF storeOk /\ AuditValid(entry) THEN Append(log, entry) ELSE log

(***************************************************************************)
(* Tenant Resolver (middleware/tenant.js).  host is the list of labels of  *)
(* the Host header (host.split('.')), hdr is x-tenant-subdomain.           *)
(***************************************************************************)
\* mutant of CandidateSubdomain: the host is preferred to the header
CandidateSubdomainHostFirst(hdr, host) ==
    IF Len(host) >= 2 THEN host[1]
    ELSE IF hdr # "none" THEN hdr ELSE "none"

CandidateSubdomain(hdr, host) ==
    IF hdr # "none" THEN hdr
    ELSE IF Len(host) >= 2 THEN host[1] ELSE "none"

IsAuthPath(route) == route \in {"signup", "signup.resilient", "login", "login.resilient"}

\* returns req.tenantId (None when no tenant is resolved); lookupOk = FALSE is
\* Tenant.findOne throwing, which is caught and the request continues
tenantMiddleware(route, hdr, host, lookupOk) ==
    LET subdomain == CandidateSubdomain(hdr, host)
    IN IF subdomain # "none" /\ ~IsAuthPath(route) /\ lookupOk
       THEN TenantFindOne(subdomain, TRUE)
       ELSE None

\* the variant without the /api/auth/ exemption (any throw lands in catch -> next())
tenantMiddlewareAll(hdr, host, lookupOk) ==
    LET subdomain == CandidateSubdomain(hdr, host)
    IN IF subdomain # "none" /\ lookupOk
       THEN TenantFindOne(subdomain, TRUE)
       ELSE None

(***************************************************************************)
(* Authorizer (middleware/auth.js).                                        *)
(***************************************************************************)
Reply(status, error, message) ==
    [status |-> status, error |-> error, message |-> message]

NoReply == Reply(0, "none", "none")

\* next(error): the express error handler answers 500
errorHandler == Reply(500, "Internal server error", "none")

\* mutant of TenantMismatch: the tenant-match guard is dropped
TenantMismatchDropped(reqTenantId, userTenantId) == FALSE

\* the tenant-match guard of authenticate
TenantMismatch(reqTenantId, userTenantId) ==
    reqTenantId # None /\ userTenantId # reqTenantId

\* mutant of ViolationEntry: the details name the requested tenant twice
ViolationEntryOneTenant(reqTenantId, userId) ==
    [tenantId |-> reqTenantId, userId |-> userId, action |-> "data.accessed",
     details |-> [violation |-> "cross_tenant_access_attempt",
                  requestedTenant |-> reqTenantId,
                  userTenant |-> reqTenantId]]

\* the audit entry authenticate writes for a tenant mismatch
ViolationEntry(reqTenantId, userId) ==
    [tenantId |-> reqTenantId, userId |-> userId, action |-> "data.accessed",
     details |-> [violation |-> "cross_tenant_access_attempt",
                  requestedTenant |-> reqTenantId,
                  userTenant |-> users[userId].tenantId]]

\* authenticate(req): [next, reply, userId (req.userId; req.user is its document),
\* log (audit entries handed to logAudit)].  findOk = FALSE is User.findById throwing.
authenticate(token, reqTenantId, findOk) ==
    IF token.kind = "none"
    THEN [next |-> FALSE, reply |-> Reply(401, "Authentication required", "none"),
          userId |-> None, log |-> <<>>]
    ELSE LET decoded == verifyToken(token) IN
      IF decoded.err = "JsonWebTokenError"
      THEN [next |-> FALSE, reply |-> Reply(401, "Invalid token", "none"),
            userId |-> None, log |-> <<>>]
      ELSE IF decoded.err = "TokenExpiredError"
      THEN [next |-> FALSE, reply |-> Reply(401, "Token expired", "none"),
            userId |-> None, log |-> <<>>]
      ELSE IF ~findOk
      THEN [next |-> FALSE, reply |-> errorHandler, userId |-> None, log |-> <<>>]
      ELSE LET user == UserFindById(decoded.userId) IN
        IF user = None \/ ~users[user].isActive
        THEN [next |-> FALSE, reply |-> Reply(401, "Invalid or inactive user", "none"),
              userId |-> None, log |-> <<>>]
        ELSE IF TenantMismatch(reqTenantId, users[user].tenantId)
        THEN [next |-> FALSE,
              reply |-> Reply(403, "Access denied",
                              "Tenant mismatch - security violation logged"),
              userId |-> None,
              log |-> <<ViolationEntry(reqTenantId, user)>>]
        ELSE [next |-> TRUE, reply |-> NoReply, userId |-> user, log |-> <<>>]

\* mutant of requireAdmin: any authenticated user passes
requireAdminAnyUser(userId) ==
    IF userId = None
    THEN [next |-> FALSE, reply |-> Reply(403, "Access denied", "Admin role required")]
    ELSE [next |-> TRUE, reply |-> NoReply]

\* requireAdmin(req)
requireAdmin(userId) ==
    IF userId = None \/ users[userId].role # "admin"
    THEN [next |-> FALSE, reply |-> Reply(403, "Access denied", "Admin role required")]
    ELSE [next |-> TRUE, reply |-> NoReply]

\* requireTenant(req)
requireTenant(reqTenantId) ==
    IF reqTenantId = None
    THEN [next |-> FALSE, reply |-> Reply(404, "Tenant not found",
                                          "Invalid subdomain or tenant not active")]
    ELSE [next |-> TRUE, reply |-> NoReply]

(***************************************************************************)
(* Requests.  A slot holds one HTTP request: its inputs, what the          *)
(* middleware attached to it (req.tenantId, req.userId), the handler's     *)
(* locals across awaits, and the response once it is sent.                 *)
(***************************************************************************)
NoBody ==
    [email |-> "none", password |-> "none", subdomain |-> "none",
     callId |-> None, primaryColor |-> "none"]

\* the provider's answer to a status poll
Payload(status, duration, recordingUrl) ==
    [status |-> status, duration |-> duration, recordingUrl |-> recordingUrl]

NoPayload == Payload("none", -1, "none")

\* the provider's answer to a create request
Created(callId, status) == [callId |-> callId, status |-> status]

NoCreated == Created("none", "none")

NoDocs == {}
NoFaults == {}

NewReq ==
    [pc |-> "idle", route |-> "none", token |-> NoToken, hdr |-> "none",
     host |-> <<>>, body |-> NoBody,
     tenantId |-> None,     \* req.tenantId, set by tenantMiddleware only
     userId |-> None,       \* req.userId / req.user, set by authenticate
     reply |-> NoReply,     \* the response sent
     ran |-> FALSE,         \* the route handler was entered
     queried |-> FALSE,     \* the handler issued a tenant-scoped query ...
     scope |-> None,        \* ... with this tenantId in its filter
     docs |-> NoDocs,       \* documents returned or modified: <<collection, _id>>
     issued |-> NoToken,    \* token in the response body
     faults |-> NoFaults,   \* store / provider operations that threw in this request
     tenantDoc |-> None,    \* handler local: tenant
     userDoc |-> None,      \* handler local: user
     callDoc |-> None,      \* handler local: call (_id)
     loaded |-> "none",     \* handler local: call.status as loaded
     provider |-> NoPayload, \* handler local: what the provider answered
     asked |-> FALSE,       \* the provider was contacted
     fetched |-> "none",    \* handler local: transcript obtained from the provider
     sent |-> "none",       \* transcript in the response body
     created |-> NoCreated, \* handler local: what the provider answered to create
     pushedAt |-> None]     \* handler local: timestamp of the event pushed, not yet saved

CallRoutes ==
    {"calls.create", "calls.list", "calls.get", "calls.status", "calls.transcript"}
DashboardRoutes ==
    {"dashboard.metrics", "dashboard.audit-logs", "dashboard.users", "dashboard.stats"}
TenantRoutes == {"tenant.info", "tenant.branding.put"}

AuthenticatedRoutes == CallRoutes \cup DashboardRoutes \cup TenantRoutes

\* router.<verb>(path, authenticate, requireTenant, handler)
RequireTenantRoutes == CallRoutes
\* router.<verb>(path, authenticate, requireAdmin, handler)
RequireAdminRoutes == {"dashboard.audit-logs", "dashboard.users", "tenant.branding.put"}

\* The middleware chain of an authenticated route, up to its handler.
Chain(route, token, reqTenantId, findOk) ==
    LET a == authenticate(token, reqTenantId, findOk) IN
    IF ~a.next THEN a
    ELSE IF route \in RequireTenantRoutes /\ ~requireTenant(reqTenantId).next
    THEN [a EXCEPT !.next = FALSE, !.reply = requireTenant(reqTenantId).reply]
    ELSE IF route \in RequireAdminRoutes /\ ~requireAdmin(a.userId).next
    THEN [a EXCEPT !.next = FALSE, !.reply = requireAdmin(a.userId).reply]
    ELSE a

(***************************************************************************)
(* Request inputs.                                                         *)
(***************************************************************************)
UserIds == 1..6
TokenTenantIds == 1..2

\* whatever jwt.verify accepts or rejects: any payload signed with JWT_SECRET,
\* an expired one, one with a bad signature, or no bearer credential at all
TokenInputs ==
    {NoToken,
     [kind |-> "badsig", userId |-> 1, tenantId |-> 1],
     [kind |-> "expired", userId |-> 1, tenantId |-> 1]}
    \cup {generateToken(u, t) : u \in UserIds, t \in TokenTenantIds}

\* <<x-tenant-subdomain, labels of Host>>
HeaderInputs ==
    {<<"none", <<"localhost:5000">> >>,
     <<"none", <<"acme", "example", "com">> >>,
     <<"none", <<"www", "example", "com">> >>,
     <<"acme", <<"localhost:5000">> >>,
     <<"beta", <<"acme", "example", "com">> >>,
     <<"old", <<"localhost:5000">> >>}

CallIdInputs == 1..(Cardinality(DOMAIN calls) + 1)

BodyInputs(route) ==
    IF route \in {"calls.get", "calls.status", "calls.transcript"}
    THEN {[NoBody EXCEPT !.callId = c] : c \in CallIdInputs}
    ELSE IF route = "tenant.branding.put"
    THEN {[NoBody EXCEPT !.primaryColor = "#ff0000"]}
    ELSE {NoBody}

(***************************************************************************)
(* An authenticated request arrives: tenantMiddleware, then the route's    *)
(* chain.  The tenant-mismatch audit entry is written before the 403.      *)
(***************************************************************************)
ReceiveFaults(token, hh, c, lookupOk, findOk, auditOk) ==
    (IF CandidateSubdomain(hh[1], hh[2]) # "none" /\ ~lookupOk
     THEN {"Tenant.findOne"} ELSE {})
    \cup (IF token.kind # "none" /\ verifyToken(token).err = "none" /\ ~findOk
          THEN {"User.findById"} ELSE {})
    \cup (IF c.log # <<>> /\ ~auditOk THEN {"AuditLog.create"} ELSE {})

Receive(r, routes, tokens, headers) ==
    /\ reqs[r].pc = "idle"
    /\ Len(audit) < MaxAudit
    /\ \E route \in routes, token \in tokens, hh \in headers,
          lookupOk \in BOOLEAN, findOk \in BOOLEAN, auditOk \in BOOLEAN :
       \E body \in BodyInputs(route) :
         LET tid == tenantMiddleware(route, hh[1], hh[2], lookupOk)
             c == Chain(route, token, tid, findOk)
             q == [NewReq EXCEPT !.route = route, !.token = token, !.hdr = hh[1],
                                 !.host = hh[2], !.body = body, !.tenantId = tid,
                                 !.userId = c.userId,
                                 !.faults = ReceiveFaults(token, hh, c, lookupOk,
                                                          findOk, auditOk)]
         IN /\ reqs' = [reqs EXCEPT ![r] =
                          IF c.next THEN [q EXCEPT !.pc = "handler"]
                          ELSE [q EXCEPT !.pc = "done", !.reply = c.reply]]
            /\ audit' = IF c.log = <<>> THEN audit
                        ELSE logAudit(audit, c.log[1], auditOk)
    /\ UNCHANGED <<tenants, users, calls, tenantSeq, clock>>

\* the response has been delivered; the slot is free again
Respond(r) ==
    /\ reqs[r].pc = "done"
    /\ reqs' = [reqs EXCEPT ![r] = NewReq]
    /\ UNCHANGED <<tenants, users, calls, audit, tenantSeq, clock>>

(***************************************************************************)
(* Read-only handlers.                                                     *)
(***************************************************************************)
CallsOf(q) == {c \in DOMAIN calls : MatchTenant(calls[c].tenantId, q)}
UsersOf(q) == {u \in DOMAIN users : MatchTenant(users[u].tenantId, q)}
AuditOf(q) == {i \in DOMAIN audit : MatchTenant(audit[i].tenantId, q)}

CallDocs(cs) ==
    {<<"call", c>> : c \in cs} \cup {<<"user", calls[c].userId>> : c \in cs}

Finish(r, reply, scope, docs) ==
    reqs' = [reqs EXCEPT ![r].pc = "done", ![r].ran = TRUE, ![r].reply = reply,
                         ![r].queried = TRUE, ![r].scope = scope, ![r].docs = docs]

\* GET /api/calls
ListCalls(r) ==
    /\ reqs[r].pc = "handler" /\ reqs[r].route = "calls.list"
    /\ Finish(r, Reply(200, "none", "none"), reqs[r].tenantId,
              CallDocs(CallsOf(reqs[r].tenantId)))
    /\ UNCHANGED <<tenants, users, calls, audit, tenantSeq, clock>>

\* mutant of CallFindOne: the filter has no tenantId
CallFindOneAnyTenant(id, q) ==
    IF id \in DOMAIN calls THEN id ELSE None

\* Call.findOne({ _id, tenantId })
CallFindOne(id, q) ==
    IF id \in DOMAIN calls /\ MatchTenant(calls[id].tenantId, q) THEN id ELSE None

\* GET /api/calls/:id
GetCall(r) ==
    /\ reqs[r].pc = "handler" /\ reqs[r].route = "calls.get"
    /\ LET c == CallFindOne(reqs[r].body.callId, reqs[r].tenantId) IN
       IF c = None
       THEN Finish(r, Reply(404, "Call not found", "none"), reqs[r].tenantId, {})
       ELSE Finish(r, Reply(200, "none", "none"), reqs[r].tenantId, CallDocs({c}))
    /\ UNCHANGED <<tenants, users, calls, audit, tenantSeq, clock>>

\* userQuery of the dashboard: admins see the tenant, others their own calls
DashboardCalls(q, userId) ==
    IF users[userId].role = "admin" THEN CallsOf(q)
    ELSE {c \in CallsOf(q) : calls[c].userId = userId}

\* GET /api/dashboard/metrics
Metrics(r) ==
    /\ reqs[r].pc = "handler" /\ reqs[r].route = "dashboard.metrics"
    /\ LET q == reqs[r].tenantId
           counted == IF users[reqs[r].userId].role = "admin"
                      THEN {<<"user", u>> : u \in UsersOf(q)} ELSE {}
       IN Finish(r, Reply(200, "none", "none"), q,
                 CallDocs(DashboardCalls(q, reqs[r].userId)) \cup counted)
    /\ UNCHANGED <<tenants, users, calls, audit, tenantSeq, clock>>

\* GET /api/dashboard/stats
Stats(r) ==
    /\ reqs[r].pc = "handler" /\ reqs[r].route = "dashboard.stats"
    /\ LET q == reqs[r].tenantId
       IN Finish(r, Reply(200, "none", "none"), q,
                 {<<"call", c>> : c \in DashboardCalls(q, reqs[r].userId)})
    /\ UNCHANGED <<tenants, users, calls, audit, tenantSeq, clock>>

\* GET /api/dashboard/audit-logs
AuditLogs(r) ==
    /\ reqs[r].pc = "handler" /\ reqs[r].route = "dashboard.audit-logs"
    /\ LET q == reqs[r].tenantId
       IN Finish(r, Reply(200, "none", "none"), q,
                 {<<"audit", i>> : i \in AuditOf(q)}
                 \cup {<<"user", audit[i].userId>> :
                         i \in {j \in AuditOf(q) : audit[j].userId # None}})
    /\ UNCHANGED <<tenants, users, calls, audit, tenantSeq, clock>>

\* GET /api/dashboard/users
ListUsers(r) ==
    /\ reqs[r].pc = "handler" /\ reqs[r].route = "dashboard.users"
    /\ LET q == reqs[r].tenantId
       IN Finish(r, Reply(200, "none", "none"), q, {<<"user", u>> : u \in UsersOf(q)})
    /\ UNCHANGED <<tenants, users, calls, audit, tenantSeq, clock>>

\* GET /api/tenant/info
TenantInfo(r) ==
    /\ reqs[r].pc = "handler" /\ reqs[r].route = "tenant.info"
    /\ LET t == TenantFindById(reqs[r].tenantId) IN
       IF t = None
       THEN Finish(r, Reply(404, "Tenant not found", "none"), reqs[r].tenantId, {})
       ELSE Finish(r, Reply(200, "none", "none"), reqs[r].tenantId, {<<"tenant", t>>})
    /\ UNCHANGED <<tenants, users, calls, audit, tenantSeq, clock>>

\* PUT /api/tenant/branding: tenant.save(), then the branding.updated audit entry
UpdateBranding(r) ==
    /\ reqs[r].pc = "handler" /\ reqs[r].route = "tenant.branding.put"
    /\ LET t == TenantFindById(reqs[r].tenantId) IN
       IF t = None
       THEN /\ Finish(r, Reply(404, "Tenant not found", "none"), reqs[r].tenantId, {})
            /\ UNCHANGED <<tenants, audit>>
       ELSE \E saveOk \in BOOLEAN, auditOk \in BOOLEAN :
            IF ~saveOk
            THEN /\ Finish(r, errorHandler, reqs[r].tenantId, {})
                 /\ UNCHANGED <<tenants, audit>>
            ELSE /\ tenants' = [tenants EXCEPT ![t].branding = reqs[r].body.primaryColor]
                 /\ audit' = logAudit(audit,
                               [tenantId |-> t, userId |-> reqs[r].userId,
                                action |-> "branding.updated",
                                details |-> [primaryColor |-> reqs[r].body.primaryColor]],
                               auditOk)
                 /\ reqs' = [reqs EXCEPT ![r].pc = "done", ![r].ran = TRUE,
                                ![r].reply = Reply(200, "none", "none"),
                                ![r].queried = TRUE, ![r].scope = reqs[r].tenantId,
                                ![r].docs = {<<"tenant", t>>},
                                ![r].faults = @ \cup (IF auditOk THEN {}
                                                      ELSE {"AuditLog.create"})]
    /\ UNCHANGED <<users, calls, tenantSeq, clock>>

(***************************************************************************)
(* Stores.                                                                 *)
(***************************************************************************)
\* passwords are stored hashed (the User model's pre-save hook)
Hash(password) == <<"bcrypt", password>>

\* user.comparePassword(candidate)
comparePassword(userId, candidate) == users[userId].password = Hash(candidate)

Tenant(subdomain, isActive) ==
    [subdomain |-> subdomain, isActive |-> isActive, branding |-> "#3b82f6"]

User(email, password, tenantId, role, isActive) ==
    [email |-> email, password |-> Hash(password), tenantId |-> tenantId,
     role |-> role, isActive |-> isActive]

\* duration: Number, not set
NoDuration == -1

Call(tenantId, userId, ultravoxCallId, status) ==
    [tenantId |-> tenantId, userId |-> userId, ultravoxCallId |-> ultravoxCallId,
     status |-> status, events |-> <<>>,
     duration |-> NoDuration, recordingUrl |-> "none", transcript |-> "none"]

\* A provisioned store: two active tenants and a deactivated one; an admin and a
\* standard user in the first, the same email in the second, a deactivated user.
SeedTenants ==
    (1 :> Tenant("acme", TRUE)) @@ (2 :> Tenant("beta", TRUE)) @@ (3 :> Tenant("old", FALSE))

SeedUsers ==
    (1 :> User("ann@x.io", "secret1", 1, "admin", TRUE))
    @@ (2 :> User("bob@x.io", "secret1", 1, "user", TRUE))
    @@ (3 :> User("ann@x.io", "secret2", 2, "admin", TRUE))
    @@ (4 :> User("bob@x.io", "secret2", 3, "admin", TRUE))
    @@ (5 :> User("bob@x.io", "secret2", 2, "user", FALSE))

SeedCalls == (1 :> Call(1, 1, "uv-1", "queued")) @@ (2 :> Call(2, 3, "uv-2", "queued"))

SeedAudit ==
    <<[tenantId |-> 2, userId |-> 3, action |-> "user.login",
       details |-> [email |-> "ann@x.io"]]>>

(***************************************************************************)
(* Call lifecycle (routes/calls.js, services/ultravox.js).                 *)
(***************************************************************************)
\* callSchema.status enum
CallStatuses == {"queued", "ringing", "in_progress", "completed", "failed", "ended"}

\* answers of the provider to GET /calls/:id; duration and recordingUrl are
\* null unless the call is completed, and a completed call may last 0 seconds
ProviderPayloads ==
    {Payload("queued", NoDuration, "none"),
     Payload("in_progress", NoDuration, "none"),
     Payload("completed", 0, "rec.mp3"),
     Payload("completed", 42, "rec.mp3"),
     Payload("paused", NoDuration, "none")}

\* { type: `status.${status.status}`, data: status }
\* timestamp: { type: Date, default: Date.now }, taken when the event is pushed
StatusEvent(payload, now) ==
    [type |-> <<"status", payload.status>>, timestamp |-> now, data |-> payload]

\* if (status.duration) call.duration = status.duration
Truthy(duration) == duration # NoDuration /\ duration # 0

\* mutant of Reconcile: the status is set but the event is not pushed
ReconcileStatusOnly(call, payload, now) ==
    [call EXCEPT !.status = payload.status]

\* the document after the status block, before save()
Reconcile(call, payload, now) ==
    [call EXCEPT !.status = payload.status,
                 !.events = Append(@, StatusEvent(payload, now)),
                 !.duration = IF Truthy(payload.duration) THEN payload.duration ELSE @,
                 !.recordingUrl = IF payload.recordingUrl # "none"
                                  THEN payload.recordingUrl ELSE @]

\* mutant of StatusChanged: a report of completed is always taken for a change
StatusChangedOrCompleted(payload, loaded) ==
    payload.status # loaded \/ payload.status = "completed"

\* mutant of StatusChanged: a completed call takes no further status
StatusChangedUnlessCompleted(payload, loaded) ==
    payload.status # loaded /\ loaded # "completed"

\* mutant of StatusChanged: every poll is taken for a change
StatusChangedAlways(payload, loaded) == TRUE

\* if (status.status !== call.status)
StatusChanged(payload, loaded) == payload.status # loaded

NewCallId == Cardinality(DOMAIN calls) + 1

RECURSIVE EventCount(_)
EventCount(cs) ==
    IF cs = {} THEN 0
    ELSE LET c == CHOOSE x \in cs : TRUE
         IN Len(calls[c].events) + EventCount(cs \ {c})

\* events stored over all calls
TotalEvents == EventCount(DOMAIN calls)

\* answers of the provider to POST /calls: the id of the new call, with or
\* without a status, which may be one the schema does not know
CreateAnswers ==
    {Created("uv-new", "none"), Created("uv-new", "queued"),
     Created("uv-new", "ringing"), Created("uv-new", "paused")}

\* mutant of InitialStatus: the reported status is ignored
InitialStatusQueued(answer) == "queued"

\* status: ultravoxCall.status || 'queued'
InitialStatus(answer) == IF answer.status = "none" THEN "queued" ELSE answer.status

\* POST /api/calls
CreateCall(r) ==
    /\ reqs[r].pc = "handler" /\ reqs[r].route = "calls.create"
    /\ Cardinality(DOMAIN calls) < Cardinality(DOMAIN SeedCalls) + MaxNewCalls
    /\ \E providerOk \in BOOLEAN, answer \in CreateAnswers, createOk \in BOOLEAN,
          auditOk \in BOOLEAN :
        LET q == [reqs[r] EXCEPT !.pc = "done", !.ran = TRUE, !.asked = TRUE] IN
        IF ~providerOk
        THEN /\ reqs' = [reqs EXCEPT ![r] =
                    [q EXCEPT !.reply = errorHandler, !.faults = @ \cup {"provider"}]]
             /\ UNCHANGED <<calls, audit>>
        ELSE IF InitialStatus(answer) \notin CallStatuses \/ ~createOk
        THEN /\ reqs' = [reqs EXCEPT ![r] =
                    [q EXCEPT !.reply = errorHandler, !.created = answer,
                              !.faults = @ \cup
                                  (IF InitialStatus(answer) \notin CallStatuses
                                   THEN {"ValidationError"} ELSE {"Call.create"})]]
             /\ UNCHANGED <<calls, audit>>
        ELSE /\ calls' = calls @@
                    (NewCallId :> Call(reqs[r].tenantId, reqs[r].userId,
                                       answer.callId, InitialStatus(answer)))
             /\ audit' = logAudit(audit,
                    [tenantId |-> reqs[r].tenantId, userId |-> reqs[r].userId,
                     action |-> "call.created", details |-> [callId |-> NewCallId]],
                    auditOk)
             /\ reqs' = [reqs EXCEPT ![r] =
                    [q EXCEPT !.reply = Reply(201, "none", "none"),
                              !.created = answer,
                              !.callDoc = NewCallId,
                              !.docs = {<<"call", NewCallId>>},
                              !.faults = @ \cup (IF auditOk THEN {}
                                                 ELSE {"AuditLog.create"})]]
    /\ UNCHANGED <<tenants, users, tenantSeq, clock>>

\* GET /api/calls/:id/status, up to the request to the provider
StatusLoad(r) ==
    /\ reqs[r].pc = "handler" /\ reqs[r].route = "calls.status"
    /\ \E findOk \in BOOLEAN :
        LET c == CallFindOne(reqs[r].body.callId, reqs[r].tenantId)
            q == [reqs[r] EXCEPT !.ran = TRUE, !.queried = TRUE,
                                 !.scope = reqs[r].tenantId]
        IN reqs' = [reqs EXCEPT ![r] =
              IF ~findOk
              THEN [q EXCEPT !.pc = "done", !.reply = errorHandler,
                             !.faults = @ \cup {"Call.findOne"}]
              ELSE IF c = None
              THEN [q EXCEPT !.pc = "done", !.reply = Reply(404, "Call not found", "none")]
              ELSE [q EXCEPT !.pc = "poll", !.callDoc = c, !.loaded = calls[c].status]]
    /\ UNCHANGED <<tenants, users, calls, audit, tenantSeq, clock>>

\* the provider answers (or not); the status block; save(); the audit entry
StatusPoll(r) ==
    /\ reqs[r].pc = "poll"
    /\ \E providerOk \in BOOLEAN, payload \in ProviderPayloads,
          saveOk \in BOOLEAN, auditOk \in BOOLEAN :
        LET c == reqs[r].callDoc
            q == [reqs[r] EXCEPT !.pc = "done", !.docs = {<<"call", c>>},
                                 !.asked = TRUE]
        IN
        IF ~providerOk
        THEN /\ reqs' = [reqs EXCEPT ![r] =
                    [q EXCEPT !.reply = errorHandler, !.docs = {},
                              !.faults = @ \cup {"provider"}]]
             /\ UNCHANGED <<calls, audit, clock>>
        ELSE IF ~StatusChanged(payload, reqs[r].loaded)
        THEN /\ reqs' = [reqs EXCEPT ![r] =
                    [q EXCEPT !.reply = Reply(200, "none", "none"),
                              !.provider = payload]]
             /\ UNCHANGED <<calls, audit, clock>>
        ELSE IF payload.status \notin CallStatuses \/ ~saveOk
        THEN /\ reqs' = [reqs EXCEPT ![r] =
                    [q EXCEPT !.reply = errorHandler, !.provider = payload, !.docs = {},
                              !.faults = @ \cup (IF payload.status \notin CallStatuses
                                                 THEN {"ValidationError"}
                                                 ELSE {"Call.save"})]]
             /\ UNCHANGED <<calls, audit, clock>>
        ELSE /\ TotalEvents < MaxEvents
             /\ clock' = clock + 1
             /\ calls' = [calls EXCEPT ![c] = Reconcile(@, payload, clock')]
             /\ audit' = IF payload.status = "completed"
                         THEN logAudit(audit,
                                [tenantId |-> reqs[r].tenantId, userId |-> reqs[r].userId,
                                 action |-> "call.completed",
                                 details |-> [callId |-> c, duration |-> payload.duration]],
                                auditOk)
                         ELSE audit
             /\ reqs' = [reqs EXCEPT ![r] =
                    [q EXCEPT !.reply = Reply(200, "none", "none"),
                              !.provider = payload,
                              !.faults = @ \cup (IF payload.status = "completed" /\ ~auditOk
                                                 THEN {"AuditLog.create"} ELSE {})]]
    /\ UNCHANGED <<tenants, users, tenantSeq>>

\* GET /api/calls/:id/status between the provider's answer and save(): the
\* status block changes the loaded document in memory; the pushed event takes
\* its timestamp now
StatusPush(r) ==
    /\ reqs[r].pc = "poll"
    /\ \E providerOk \in BOOLEAN, payload \in ProviderPayloads :
        LET q == [reqs[r] EXCEPT !.asked = TRUE] IN
        IF ~providerOk
        THEN /\ reqs' = [reqs EXCEPT ![r] =
                    [q EXCEPT !.pc = "done", !.reply = errorHandler,
                              !.faults = @ \cup {"provider"}]]
             /\ UNCHANGED clock
        ELSE IF ~StatusChanged(payload, reqs[r].loaded)
        THEN /\ reqs' = [reqs EXCEPT ![r] =
                    [q EXCEPT !.pc = "done", !.docs = {<<"call", reqs[r].callDoc>>},
                              !.reply = Reply(200, "none", "none"),
                              !.provider = payload]]
             /\ UNCHANGED clock
        ELSE /\ clock < MaxEvents
             /\ clock' = clock + 1
             /\ reqs' = [reqs EXCEPT ![r] =
                    [q EXCEPT !.pc = "save", !.provider = payload, !.pushedAt = clock']]
    /\ UNCHANGED <<tenants, users, calls, audit, tenantSeq>>

\* call.save() of the changed document and what follows it. save() sends the
\* changes made in memory ($set status, $push of the new event) and they are
\* applied to the document as it is stored by then
StatusSave(r) ==
    /\ reqs[r].pc = "save"
    /\ \E saveOk \in BOOLEAN, auditOk \in BOOLEAN :
        LET c == reqs[r].callDoc
            payload == reqs[r].provider
            q == [reqs[r] EXCEPT !.pc = "done", !.docs = {<<"call", c>>}]
        IN
        IF payload.status \notin CallStatuses \/ ~saveOk
        THEN /\ reqs' = [reqs EXCEPT ![r] =
                    [q EXCEPT !.reply = errorHandler, !.docs = {},
                              !.faults = @ \cup (IF payload.status \notin CallStatuses
                                                 THEN {"ValidationError"}
                                                 ELSE {"Call.save"})]]
             /\ UNCHANGED <<calls, audit>>
        ELSE /\ calls' = [calls EXCEPT ![c] = Reconcile(@, payload, reqs[r].pushedAt)]
             /\ audit' = IF payload.status = "completed"
                         THEN logAudit(audit,
                                [tenantId |-> reqs[r].tenantId, userId |-> reqs[r].userId,
                                 action |-> "call.completed",
                                 details |-> [callId |-> c, duration |-> payload.duration]],
                                auditOk)
                         ELSE audit
             /\ reqs' = [reqs EXCEPT ![r] =
                    [q EXCEPT !.reply = Reply(200, "none", "none"),
                              !.faults = @ \cup (IF payload.status = "completed" /\ ~auditOk
                                                 THEN {"AuditLog.create"} ELSE {})]]
    /\ UNCHANGED <<tenants, users, tenantSeq, clock>>

\* what the provider answers to a transcript request: a transcript, or
\* nothing (non-OK response or a failed request, both returned as null)
NoTranscript == "none"
TranscriptAnswers == {NoTranscript, "hello", "hello, bye"}

\* JSON.stringify(transcriptData.transcript)
JsonStringify(content) ==
    CASE content = "hello" -> "[hello]"
      [] content = "hello, bye" -> "[hello, bye]"
      [] OTHER -> "null"

\* JSON.parse(call.transcript); what does not parse is returned as stored
JsonParse(text) ==
    CASE text = "[hello]" -> "hello"
      [] text = "[hello, bye]" -> "hello, bye"
      [] text = "null" -> NoTranscript
      [] OTHER -> text

\* mutant of TranscriptCached: every Call is taken to hold a transcript
TranscriptCachedAlways(call) == TRUE

\* if (call.transcript)
TranscriptCached(call) == call.transcript # "none"

\* mutant of StoreTranscript: the transcript is not written to the Call
StoreTranscriptDropped(call, content) == call

\* call.transcript = JSON.stringify(transcriptData.transcript)
StoreTranscript(call, content) == [call EXCEPT !.transcript = JsonStringify(content)]

\* GET /api/calls/:id/transcript
Transcript(r) ==
    /\ reqs[r].pc = "handler" /\ reqs[r].route = "calls.transcript"
    /\ \E answer \in TranscriptAnswers, saveOk \in BOOLEAN :
        LET c == CallFindOne(reqs[r].body.callId, reqs[r].tenantId)
            q == [reqs[r] EXCEPT !.pc = "done", !.ran = TRUE, !.queried = TRUE,
                                 !.scope = reqs[r].tenantId]
            ok == [q EXCEPT !.reply = Reply(200, "none", "none"), !.callDoc = c,
                            !.docs = {<<"call", c>>}]
        IN
        IF c = None
        THEN /\ reqs' = [reqs EXCEPT ![r] =
                    [q EXCEPT !.reply = Reply(404, "Call not found", "none")]]
             /\ UNCHANGED calls
        ELSE IF TranscriptCached(calls[c])
        THEN /\ reqs' = [reqs EXCEPT ![r] =
                    [ok EXCEPT !.sent = JsonParse(calls[c].transcript)]]
             /\ UNCHANGED calls
        ELSE IF answer = NoTranscript
        THEN /\ reqs' = [reqs EXCEPT ![r] =
                    [ok EXCEPT !.reply = Reply(200, "none", "Transcript not available yet"),
                               !.asked = TRUE]]
             /\ UNCHANGED calls
        ELSE IF ~saveOk
        THEN /\ reqs' = [reqs EXCEPT ![r] =
                    [q EXCEPT !.reply = errorHandler, !.asked = TRUE, !.callDoc = c,
                              !.fetched = answer,
                              !.faults = @ \cup {"Call.save"}]]
             /\ UNCHANGED calls
        ELSE /\ calls' = [calls EXCEPT ![c] = StoreTranscript(@, answer)]
             /\ reqs' = [reqs EXCEPT ![r] =
                    [ok EXCEPT !.asked = TRUE, !.fetched = answer, !.sent = answer]]
    /\ UNCHANGED <<tenants, users, audit, tenantSeq, clock>>

(***************************************************************************)
(* Store writes.                                                           *)
(***************************************************************************)
\* mutant of TenantCreateOk: no unique index on subdomain
TenantCreateUnchecked(subdomain) == TRUE

\* Tenant.create: the unique index on subdomain rejects a duplicate (E11000)
TenantCreateOk(subdomain) == TenantFindOne(subdomain, FALSE) = None

\* User.create: the unique compound index { email, tenantId }
UserCreateOk(email, tenantId) ==
    ~\E u \in DOMAIN users : users[u].email = email /\ users[u].tenantId = tenantId

NewUserId == Cardinality(DOMAIN users) + 1

(***************************************************************************)
(* POST /api/auth/signup.  route "signup" is routes/auth.js (errors go to  *)
(* next(error)); route "signup.resilient" is the variant that catches      *)
(* every store error itself and cleans the tenant up.                      *)
(***************************************************************************)
SignupRoutes == {"signup", "signup.resilient"}

MinPasswordLength == 6

\* password.length
PasswordLength(password) ==
    CASE password = "short" -> 5
      [] password = "secret1" -> 7
      [] password = "secret2" -> 7
      [] OTHER -> 0

SignupBodies ==
    {[NoBody EXCEPT !.email = e, !.password = p, !.subdomain = sd] :
        e \in {"ann@x.io", "none"}, p \in {"secret1", "short"}, sd \in {"acme", "zeta"}}

\* the request body is validated before the store is touched
ReceiveSignup(r) ==
    /\ reqs[r].pc = "idle"
    /\ Len(audit) < MaxAudit
    /\ \E route \in SignupRoutes, body \in SignupBodies :
        LET q == [NewReq EXCEPT !.route = route, !.body = body, !.ran = TRUE] IN
        reqs' = [reqs EXCEPT ![r] =
            IF body.email = "none" \/ body.password = "none" \/ body.subdomain = "none"
            THEN [q EXCEPT !.pc = "done",
                           !.reply = Reply(400, "All fields are required", "none")]
            ELSE IF PasswordLength(body.password) < MinPasswordLength
            THEN [q EXCEPT !.pc = "done",
                           !.reply = Reply(400, "Password must be at least 6 characters",
                                           "none")]
            ELSE [q EXCEPT !.pc = "check"]]
    /\ UNCHANGED <<tenants, users, calls, audit, tenantSeq, clock>>

\* what the base route answers when the subdomain check throws
SubdomainCheckFailed(q) ==
    IF q.route = "signup"
    THEN [q EXCEPT !.pc = "done", !.reply = errorHandler,
                   !.faults = @ \cup {"Tenant.findOne"}]
    ELSE [q EXCEPT !.pc = "createTenant", !.faults = @ \cup {"Tenant.findOne"}]

\* Tenant.findOne({ subdomain }): is the subdomain taken?
SignupCheck(r) ==
    /\ reqs[r].pc = "check"
    /\ \E checkOk \in BOOLEAN :
        reqs' = [reqs EXCEPT ![r] =
            IF ~checkOk THEN SubdomainCheckFailed(reqs[r])
            ELSE IF TenantFindOne(reqs[r].body.subdomain, FALSE) # None
            THEN [@ EXCEPT !.pc = "done",
                           !.reply = Reply(400, "Subdomain already taken", "none")]
            ELSE [@ EXCEPT !.pc = "createTenant"]]
    /\ UNCHANGED <<tenants, users, calls, audit, tenantSeq, clock>>

TenantCreateFailedReply(route) ==
    IF route = "signup" THEN errorHandler
    ELSE Reply(500, "Failed to create tenant. Please try again.", "none")

\* Tenant.create({ subdomain, name })
SignupCreateTenant(r) ==
    /\ reqs[r].pc = "createTenant"
    /\ \E storeOk \in BOOLEAN :
        IF storeOk /\ TenantCreateOk(reqs[r].body.subdomain)
        THEN /\ tenantSeq < Cardinality(DOMAIN SeedTenants) + MaxSignups
             /\ tenantSeq' = tenantSeq + 1
             /\ tenants' = tenants @@ (tenantSeq' :> Tenant(reqs[r].body.subdomain, TRUE))
             /\ reqs' = [reqs EXCEPT ![r].pc = "createUser", ![r].tenantDoc = tenantSeq']
        ELSE /\ reqs' = [reqs EXCEPT ![r].pc = "done",
                            ![r].reply = TenantCreateFailedReply(reqs[r].route),
                            ![r].faults = @ \cup (IF storeOk THEN {"E11000"}
                                                  ELSE {"Tenant.create"})]
             /\ UNCHANGED <<tenants, tenantSeq>>
    /\ UNCHANGED <<users, calls, audit, clock>>

\* the tenant left behind when User.create throws: the base route leaves it,
\* the resilient route deletes it unless the delete throws as well
TenantsAfterUserFailure(route, t, cleanupOk) ==
    IF route = "signup.resilient" /\ cleanupOk
    THEN [x \in DOMAIN tenants \ {t} |-> tenants[x]]
    ELSE tenants

UserCreateFailedReply(route) ==
    IF route = "signup" THEN errorHandler
    ELSE Reply(500, "Failed to create user account. Please try again.", "none")

\* User.create({ email, password, tenantId, role: 'admin' })
SignupCreateUser(r) ==
    /\ reqs[r].pc = "createUser"
    /\ \E storeOk \in BOOLEAN, cleanupOk \in BOOLEAN :
        IF storeOk /\ UserCreateOk(reqs[r].body.email, reqs[r].tenantDoc)
        THEN /\ users' = users @@ (NewUserId :>
                    User(reqs[r].body.email, reqs[r].body.password,
                         reqs[r].tenantDoc, "admin", TRUE))
             /\ reqs' = [reqs EXCEPT ![r].pc = "finish", ![r].userDoc = NewUserId]
             /\ UNCHANGED tenants
        ELSE /\ tenants' = TenantsAfterUserFailure(reqs[r].route, reqs[r].tenantDoc,
                                                   cleanupOk)
             /\ reqs' = [reqs EXCEPT ![r].pc = "done",
                            ![r].reply = UserCreateFailedReply(reqs[r].route),
                            ![r].faults = @ \cup {"User.create"}
                                \cup (IF reqs[r].route = "signup.resilient" /\ ~cleanupOk
                                      THEN {"Tenant.findByIdAndDelete"} ELSE {})]
             /\ UNCHANGED users
    /\ UNCHANGED <<calls, audit, tenantSeq, clock>>

\* the two audit entries, the token and the 201
SignupFinish(r) ==
    /\ reqs[r].pc = "finish"
    /\ \E ok1 \in BOOLEAN, ok2 \in BOOLEAN :
        LET t == reqs[r].tenantDoc
            u == reqs[r].userDoc
            e1 == [tenantId |-> t, userId |-> u, action |-> "tenant.created",
                   details |-> [subdomain |-> reqs[r].body.subdomain]]
            e2 == [tenantId |-> t, userId |-> u, action |-> "user.signup",
                   details |-> [email |-> reqs[r].body.email]]
        IN /\ audit' = logAudit(logAudit(audit, e1, ok1), e2, ok2)
           /\ reqs' = [reqs EXCEPT ![r].pc = "done",
                          ![r].reply = Reply(201, "none", "none"),
                          ![r].issued = generateToken(u, t),
                          ![r].docs = {<<"tenant", t>>, <<"user", u>>},
                          ![r].faults = @ \cup (IF ok1 /\ ok2 THEN {}
                                                ELSE {"AuditLog.create"})]
    /\ UNCHANGED <<tenants, users, calls, tenantSeq, clock>>

(***************************************************************************)
(* POST /api/auth/login.  route "login" is routes/auth.js: the user is     *)
(* looked up in the resolved tenant.  route "login.resilient" is the       *)
(* variant that looks the user up by email alone.                          *)
(***************************************************************************)
LoginRoutes == {"login", "login.resilient"}

LoginBodies ==
    {[NoBody EXCEPT !.email = e, !.password = p] :
        e \in {"ann@x.io", "bob@x.io", "eve@x.io", "none"},
        p \in {"secret1", "secret2", "secret3"}}

LoginHeaders ==
    {<<"none", <<"localhost:5000">> >>,
     <<"acme", <<"localhost:5000">> >>,
     <<"beta", <<"localhost:5000">> >>}

\* User.findOne({ email, tenantId, isActive: true })
UsersByEmailInTenant(email, tenantId) ==
    {u \in DOMAIN users :
        users[u].email = email /\ MatchTenant(users[u].tenantId, tenantId)
        /\ users[u].isActive}

\* User.findOne({ email, isActive: true }): whichever matching document the
\* store returns first
UsersByEmail(email) ==
    {u \in DOMAIN users : users[u].email = email /\ users[u].isActive}

\* mutant of InvalidCredentials: the answer of a lookup that found no user
UserNotFound == Reply(404, "User not found", "none")

InvalidCredentials == Reply(401, "Invalid credentials", "none")

LoginOk(q, u, t) ==
    [q EXCEPT !.pc = "done", !.reply = Reply(200, "none", "none"),
              !.issued = generateToken(u, t), !.userDoc = u, !.tenantDoc = t,
              !.docs = {<<"user", u>>, <<"tenant", t>>}]

\* the base route behind either resolver: the one server.js mounts, which
\* skips /api/auth/ paths (exempt), or the one without the exemption
ResolveForLogin(exempt, hdr, host, lookupOk) ==
    IF exempt THEN tenantMiddleware("login", hdr, host, lookupOk)
    ELSE tenantMiddlewareAll(hdr, host, lookupOk)

Login(r) ==
    /\ reqs[r].pc = "idle"
    /\ Len(audit) < MaxAudit
    /\ \E body \in LoginBodies, hh \in LoginHeaders, exempt \in BOOLEAN,
          findOk \in BOOLEAN, auditOk \in BOOLEAN :
        LET tid == ResolveForLogin(exempt, hh[1], hh[2], TRUE)
            q == [NewReq EXCEPT !.route = "login", !.body = body, !.hdr = hh[1],
                                !.host = hh[2], !.tenantId = tid, !.ran = TRUE]
            found == UsersByEmailInTenant(body.email, tid)
            qa == [q EXCEPT !.queried = TRUE, !.scope = tid,
                            !.faults = IF auditOk THEN {} ELSE {"AuditLog.create"}]
        IN
        IF body.email = "none" \/ body.password = "none"
        THEN /\ reqs' = [reqs EXCEPT ![r] =
                    [q EXCEPT !.pc = "done",
                              !.reply = Reply(400, "Email and password required", "none")]]
             /\ UNCHANGED audit
        ELSE IF tid = None
        THEN /\ reqs' = [reqs EXCEPT ![r] =
                    [q EXCEPT !.pc = "done", !.reply = Reply(400, "Tenant not found", "none")]]
             /\ UNCHANGED audit
        ELSE IF ~findOk
        THEN /\ reqs' = [reqs EXCEPT ![r] =
                    [q EXCEPT !.pc = "done", !.reply = errorHandler,
                              !.faults = {"User.findOne"}]]
             /\ UNCHANGED audit
        ELSE IF found = {} \/ \A u \in found : ~comparePassword(u, body.password)
        THEN /\ audit' = logAudit(audit,
                    [tenantId |-> tid, userId |-> None, action |-> "user.failed_login",
                     details |-> [email |-> body.email]], auditOk)
             /\ reqs' = [reqs EXCEPT ![r] =
                    [qa EXCEPT !.pc = "done", !.reply = InvalidCredentials]]
        ELSE \E u \in found :
             /\ comparePassword(u, body.password)
             /\ audit' = logAudit(audit,
                    [tenantId |-> tid, userId |-> u, action |-> "user.login",
                     details |-> [email |-> body.email]], auditOk)
             /\ reqs' = [reqs EXCEPT ![r] = LoginOk(qa, u, tid)]
    /\ UNCHANGED <<tenants, users, calls, tenantSeq, clock>>

\* the resilient route; the resolver skips /api/auth/ paths, so req.tenantId
\* is never set and the tenant is the one of the user that was found
LoginResilient(r) ==
    /\ reqs[r].pc = "idle"
    /\ Len(audit) < MaxAudit
    /\ \E body \in LoginBodies, hh \in LoginHeaders, findOk \in BOOLEAN,
          tenantOk \in BOOLEAN, auditOk \in BOOLEAN :
        LET tid == tenantMiddleware("login.resilient", hh[1], hh[2], TRUE)
            q == [NewReq EXCEPT !.route = "login.resilient", !.body = body,
                                !.hdr = hh[1], !.host = hh[2], !.tenantId = tid,
                                !.ran = TRUE]
            unavailable == Reply(500, "Service temporarily unavailable. Please try again.",
                                 "none")
        IN
        IF body.email = "none" \/ body.password = "none"
        THEN /\ reqs' = [reqs EXCEPT ![r] =
                    [q EXCEPT !.pc = "done",
                              !.reply = Reply(400, "Email and password required", "none")]]
             /\ UNCHANGED audit
        ELSE IF ~findOk
        THEN /\ reqs' = [reqs EXCEPT ![r] =
                    [q EXCEPT !.pc = "done", !.reply = unavailable,
                              !.faults = {"User.findOne"}]]
             /\ UNCHANGED audit
        ELSE IF UsersByEmail(body.email) = {}
        THEN /\ audit' = logAudit(audit,
                    [tenantId |-> None, userId |-> None, action |-> "user.failed_login",
                     details |-> [email |-> body.email]], auditOk)
             /\ reqs' = [reqs EXCEPT ![r] =
                    [q EXCEPT !.pc = "done", !.reply = InvalidCredentials]]
        ELSE \E u \in UsersByEmail(body.email) :
             IF ~comparePassword(u, body.password)
             THEN /\ audit' = logAudit(audit,
                        [tenantId |-> None, userId |-> None,
                         action |-> "user.failed_login",
                         details |-> [email |-> body.email]], auditOk)
                  /\ reqs' = [reqs EXCEPT ![r] =
                        [q EXCEPT !.pc = "done", !.reply = InvalidCredentials]]
             ELSE IF ~tenantOk
             THEN /\ reqs' = [reqs EXCEPT ![r] =
                        [q EXCEPT !.pc = "done", !.reply = unavailable,
                                  !.faults = {"Tenant.findById"}]]
                  /\ UNCHANGED audit
             ELSE IF TenantFindById(users[u].tenantId) = None
             THEN /\ reqs' = [reqs EXCEPT ![r] =
                        [q EXCEPT !.pc = "done",
                                  !.reply = Reply(500, "Internal server error", "none")]]
                  /\ UNCHANGED audit
             ELSE /\ audit' = logAudit(audit,
                        [tenantId |-> users[u].tenantId, userId |-> u,
                         action |-> "user.login",
                         details |-> [email |-> body.email]], auditOk)
                  /\ reqs' = [reqs EXCEPT ![r] =
                        LoginOk([q EXCEPT !.faults = IF auditOk THEN {}
                                                     ELSE {"AuditLog.create"}],
                                u, users[u].tenantId)]
    /\ UNCHANGED <<tenants, users, calls, tenantSeq, clock>>

Init ==
    /\ tenants = SeedTenants
    /\ users = SeedUsers
    /\ calls = SeedCalls
    /\ audit = SeedAudit
    /\ reqs = [r \in Slots |-> NewReq]
    /\ tenantSeq = Cardinality(DOMAIN SeedTenants)
    /\ clock = 0

\* the routes whose handlers do not touch the provider
StoreRoutes == AuthenticatedRoutes \ {"calls.create", "calls.status", "calls.transcript"}

Next ==
    \E r \in SeqSlots :
        \/ Receive(r, StoreRoutes, TokenInputs, HeaderInputs)
        \/ ListCalls(r)
        \/ GetCall(r)
        \/ Metrics(r)
        \/ Stats(r)
        \/ AuditLogs(r)
        \/ ListUsers(r)
        \/ TenantInfo(r)
        \/ UpdateBranding(r)
        \/ Respond(r)

Spec == Init /\ [][Next]_vars

\* signups race each other; logins run between them
NextSignup ==
    \/ \E r \in Slots :
          \/ ReceiveSignup(r)
          \/ SignupCheck(r)
          \/ SignupCreateTenant(r)
          \/ SignupCreateUser(r)
          \/ SignupFinish(r)
          \/ Respond(r)
    \/ \E r \in SeqSlots :
          \/ Login(r)
          \/ LoginResilient(r)

SpecSignup == Init /\ [][NextSignup]_vars

LifecycleRoutes == {"calls.create", "calls.status"}

LifecycleTokens == {generateToken(1, 1)}

LifecycleHeaders ==
    {<<"acme", <<"localhost:5000">> >>, <<"none", <<"beta", "example", "com">> >>}

\* the slot of the request being handled, and the slot that remembers the
\* request handled before it
Live == CHOOSE s \in Slots : \A t \in Slots : t <= s
Previous == CHOOSE s \in Slots : \A t \in Slots : s <= t

\* the response has been delivered; the finished request is remembered as
\* the previous one
Retire(r) ==
    /\ reqs[r].pc = "done"
    /\ reqs' = [reqs EXCEPT ![Previous] = reqs[r], ![r] = NewReq]
    /\ UNCHANGED <<tenants, users, calls, audit, tenantSeq, clock>>

\* call requests handled one after the other
NextCalls ==
    \/ Receive(Live, LifecycleRoutes, LifecycleTokens, LifecycleHeaders)
    \/ CreateCall(Live)
    \/ StatusLoad(Live)
    \/ StatusPoll(Live)
    \/ Retire(Live)

SpecCalls == Init /\ [][NextCalls]_vars

TranscriptRoutes == {"calls.get", "calls.status", "calls.transcript"}

TranscriptHeaders == {<<"acme", <<"localhost:5000">> >>}

\* reads, status polls and transcript requests handled one after the other
NextTranscript ==
    \/ Receive(Live, TranscriptRoutes, LifecycleTokens, TranscriptHeaders)
    \/ GetCall(Live)
    \/ StatusLoad(Live)
    \/ StatusPoll(Live)
    \/ Transcript(Live)
    \/ Retire(Live)

SpecTranscript == Init /\ [][NextTranscript]_vars

RaceRoutes == {"calls.status", "calls.transcript"}

\* status polls and transcript requests of one user handled concurrently: a
\* request is received while another is between two of its awaits
NextRace ==
    \E r \in Slots :
        \/ Receive(r, RaceRoutes, LifecycleTokens, TranscriptHeaders)
        \/ StatusLoad(r)
        \/ StatusPush(r)
        \/ StatusSave(r)
        \/ Transcript(r)
        \/ Respond(r)

SpecRace == Init /\ [][NextRace]_vars

AuditedRoutes == {"calls.create", "calls.status", "tenant.branding.put"}

\* every operation that hands an entry to logAudit, one request at a time;
\* requests are accepted while the log holds fewer than MaxAudited entries
NextAudit ==
    \/ /\ Len(audit) < MaxAudited
       /\ \/ Receive(Live, AuditedRoutes, LifecycleTokens, LifecycleHeaders)
          \/ ReceiveSignup(Live)
          \/ Login(Live)
          \/ LoginResilient(Live)
    \/ CreateCall(Live)
    \/ StatusLoad(Live)
    \/ StatusPoll(Live)
    \/ UpdateBranding(Live)
    \/ SignupCheck(Live)
    \/ SignupCreateTenant(Live)
    \/ SignupCreateUser(Live)
    \/ SignupFinish(Live)
    \/ Respond(Live)

SpecAudit == Init /\ [][NextAudit]_vars

\* the directory after a signup with subdomain 'www' (the schema accepts any
\* name of lowercase letters, digits and hyphens) whose audit writes failed
DirectoryTenants == SeedTenants @@ (4 :> Tenant("www", TRUE))
DirectoryUsers == SeedUsers @@ (6 :> User("eve@x.io", "secret1", 4, "admin", TRUE))

InitDirectory ==
    /\ tenants = DirectoryTenants
    /\ users = DirectoryUsers
    /\ calls = SeedCalls
    /\ audit = SeedAudit
    /\ reqs = [r \in Slots |-> NewReq]
    /\ tenantSeq = Cardinality(DOMAIN DirectoryTenants)
    /\ clock = 0

ResolverRoutes == {"calls.list", "tenant.info"}

ResolverTokens == {generateToken(1, 1), generateToken(6, 4)}

\* <<x-tenant-subdomain, labels of Host>>
ResolverHeaders ==
    {<<"none", <<"localhost:5000">> >>,
     <<"none", <<"acme">> >>,
     <<"none", <<"acme", "example", "com">> >>,
     <<"none", <<"old", "example", "com">> >>,
     <<"none", <<"nope", "example", "com">> >>,
     <<"none", <<"www", "example", "com">> >>,
     <<"none", <<"localhost", "localdomain">> >>,
     <<"acme", <<"beta", "example", "com">> >>,
     <<"www", <<"localhost:5000">> >>,
     <<"old", <<"acme", "example", "com">> >>}

\* requests on tenant-scoped routes from every kind of host and header
NextResolver ==
    \/ Receive(Live, ResolverRoutes, ResolverTokens, ResolverHeaders)
    \/ ListCalls(Live)
    \/ TenantInfo(Live)
    \/ Retire(Live)

SpecResolver == InitDirectory /\ [][NextResolver]_vars

ForbiddenRoutes == {"dashboard.users"}

ForbiddenTokens == {generateToken(1, 1), generateToken(2, 1)}

\* requests of an admin and of a plain user of acme on an admin-only route,
\* under acme's and under beta's host
NextForbidden ==
    \/ Receive(Live, ForbiddenRoutes, ForbiddenTokens, LifecycleHeaders)
    \/ ListUsers(Live)
    \/ Retire(Live)

SpecForbidden == Init /\ [][NextForbidden]_vars

(***************************************************************************)
(* Properties of the authorization pipeline.                               *)
(***************************************************************************)
MismatchMessage == "Tenant mismatch - security violation logged"

\* the request in q carries a valid token of an active user (the user lookup
\* answered) and the Tenant Resolver resolved another tenant than the user's
CrossTenantRequest(q) ==
    /\ q.route \in AuthenticatedRoutes
    /\ q.token.kind = "valid"
    /\ "User.findById" \notin q.faults
    /\ q.token.userId \in DOMAIN users
    /\ users[q.token.userId].isActive
    /\ q.tenantId # None
    /\ q.tenantId # users[q.token.userId].tenantId

\* C1: a request with a valid token of an active user of tenant A for which
\* the resolver resolved an active tenant B # A is answered 403 Forbidden by
\* authenticate (never 404, never success), no user is attached and the
\* handler is not run; this is so on every authenticated route.
C1_CrossTenantForbidden ==
    /\ \A r \in Slots :
         CrossTenantRequest(reqs[r]) =>
            /\ reqs[r].pc = "done"
            /\ reqs[r].reply.status = 403
            /\ reqs[r].reply.message = MismatchMessage
            /\ reqs[r].userId = None
            /\ ~reqs[r].ran
    /\ \A route \in AuthenticatedRoutes, u \in DOMAIN users, t \in DOMAIN tenants,
          tt \in TokenTenantIds :
         (users[u].isActive /\ tenants[t].isActive /\ users[u].tenantId # t) =>
            LET c == Chain(route, generateToken(u, tt), t, TRUE)
            IN ~c.next /\ c.reply.status = 403 /\ c.userId = None

C1_Witness ==
    \E r \in Slots :
        /\ CrossTenantRequest(reqs[r])
        /\ reqs[r].route = "dashboard.metrics"
        /\ reqs[r].hdr = "beta"
        /\ reqs[r].token = generateToken(1, 1)
        /\ reqs[r].reply.status = 403

IsViolation(e) ==
    /\ e.action = "data.accessed"
    /\ "violation" \in DOMAIN e.details
    /\ e.details.violation = "cross_tenant_access_attempt"

Violations(log) == {i \in DOMAIN log : IsViolation(log[i])}

\* request r is rejected by the tenant-match check in this step
RejectedNow(r) ==
    /\ reqs[r].pc = "idle"
    /\ reqs'[r].pc = "done"
    /\ reqs'[r].reply.message = MismatchMessage

\* the entry appended in this step marks the attempt of r and names both tenants
ViolationLogged(r) ==
    /\ Len(audit') = Len(audit) + 1
    /\ SubSeq(audit', 1, Len(audit)) = audit
    /\ LET e == audit'[Len(audit')] IN
        /\ IsViolation(e)
        /\ e.details.requestedTenant = reqs'[r].tenantId
        /\ e.details.userTenant = users[reqs'[r].token.userId].tenantId
        /\ e.details.requestedTenant # e.details.userTenant

\* C2 as claimed: every request rejected by the tenant-match check appends
\* exactly one audit entry marking the cross-tenant attempt, with both tenant
\* ids in its details; no other step appends such an entry.
C2_ExactlyOneEntry ==
    [][/\ \A r \in Slots : RejectedNow(r) => ViolationLogged(r)
       /\ (~\E r \in Slots : RejectedNow(r)) => Violations(audit') = Violations(audit)
      ]_vars

\* C2 as amended: a request rejected by the tenant-match check appends exactly
\* one such entry when the audit store accepts the write and none when the
\* write fails (logAudit swallows the failure); no other step appends one.
C2_OneEntryUnlessWriteFails ==
    [][/\ \A r \in Slots : RejectedNow(r) =>
            IF "AuditLog.create" \in reqs'[r].faults
            THEN audit' = audit
            ELSE ViolationLogged(r)
       /\ (~\E r \in Slots : RejectedNow(r)) => Violations(audit') = Violations(audit)
      ]_vars

C2_Witness ==
    \E r \in Slots :
        /\ reqs[r].pc = "done"
        /\ reqs[r].reply.message = MismatchMessage
        /\ "AuditLog.create" \notin reqs[r].faults
        /\ Len(audit) > Len(SeedAudit)
        /\ IsViolation(audit[Len(audit)])
        /\ audit[Len(audit)].details.requestedTenant = reqs[r].tenantId

DocTenant(d) ==
    CASE d[1] = "call" -> calls[d[2]].tenantId
      [] d[1] = "user" -> users[d[2]].tenantId
      [] d[1] = "audit" -> audit[d[2]].tenantId
      [] OTHER -> d[2]

\* C3: for every authenticated operation, every persistence query is scoped
\* to the authenticated user's tenant id and every record returned or
\* modified belongs to that tenant.
C3_QueriesScopedToUserTenant ==
    \A r \in Slots :
        (reqs[r].route \in AuthenticatedRoutes /\ reqs[r].ran /\ reqs[r].queried) =>
            /\ reqs[r].scope = users[reqs[r].userId].tenantId
            /\ \A d \in reqs[r].docs : DocTenant(d) = users[reqs[r].userId].tenantId

\* C4: every request that passes authenticate has an authorization context
\* whose tenantId is the authenticated user's own tenant id, also when the
\* Tenant Resolver resolved no tenant.
C4_ContextTenantIsUserTenant ==
    \A r \in Slots :
        reqs[r].userId # None =>
            reqs[r].tenantId = users[reqs[r].userId].tenantId

\* C5: authenticate rejects a request whose verified token names another
\* tenant than the tenant of the user it loads, so no request is authorized
\* for a tenant other than the one named in its token.
C5_TokenTenantEnforced ==
    \A r \in Slots :
        (reqs[r].route \in AuthenticatedRoutes /\ reqs[r].userId # None) =>
            /\ reqs[r].token.tenantId = users[reqs[r].userId].tenantId
            /\ (reqs[r].tenantId # None => reqs[r].tenantId = reqs[r].token.tenantId)

(***************************************************************************)
(* Properties of signup and login.                                         *)
(***************************************************************************)
\* the active users of tenant t that a login with this body names
LoginMatches(t, body) ==
    {u \in DOMAIN users :
        /\ users[u].tenantId = t
        /\ users[u].isActive
        /\ users[u].email = body.email
        /\ comparePassword(u, body.password)}

\* the email is used by an active user of another tenant as well
SharedEmail(t, email) ==
    \E v \in DOMAIN users :
        users[v].tenantId # t /\ users[v].isActive /\ users[v].email = email

\* the login request of slot r names active tenant t and presents the
\* credentials of one of its users, and no store call failed
LoginFor(r, t) ==
    /\ reqs[r].pc = "done"
    /\ reqs[r].route \in LoginRoutes
    /\ reqs[r].faults = {}
    /\ reqs[r].hdr # "none"
    /\ t = TenantFindOne(reqs[r].hdr, TRUE)
    /\ t # None
    /\ LoginMatches(t, reqs[r].body) # {}
    /\ SharedEmail(t, reqs[r].body.email)

\* C6: when two tenants each have an active user with the same email, a login
\* for one of the tenants with that tenant's password succeeds and returns a
\* token bound to that tenant's user and that tenant.
C6_LoginPerTenant ==
    \A r \in Slots : \A t \in DOMAIN tenants :
        LoginFor(r, t) =>
            /\ reqs[r].reply.status = 200
            /\ \E u \in LoginMatches(t, reqs[r].body) :
                   reqs[r].issued = generateToken(u, t)

\* the subdomain of the signup in slot r is held by a tenant this request did
\* not create
SubdomainInUse(r) ==
    \E t \in DOMAIN tenants :
        tenants[t].subdomain = reqs[r].body.subdomain /\ t # reqs[r].tenantDoc

\* slot r's signup ends in this step, and not because the store was
\* unreachable in this step (a duplicate-key rejection is an answer)
SignupEnds(r) ==
    /\ reqs[r].route \in SignupRoutes
    /\ reqs[r].pc \in {"check", "createTenant", "createUser", "finish"}
    /\ reqs'[r].pc = "done"
    /\ reqs'[r].faults \ reqs[r].faults \subseteq {"E11000"}

Conflict == Reply(400, "Subdomain already taken", "none")

\* C7: a signup whose subdomain is already used by an existing tenant fails
\* with Conflict, creates no tenant and no user, appends no audit entry and
\* issues no token, and leaves the stored tenants and users unchanged.
C7_DuplicateSubdomainConflict ==
    [][\A r \in Slots :
          (SignupEnds(r) /\ SubdomainInUse(r)) =>
              /\ reqs'[r].reply = Conflict
              /\ reqs'[r].tenantDoc = None
              /\ reqs'[r].userDoc = None
              /\ reqs'[r].issued = NoToken
              /\ tenants' = tenants
              /\ users' = users
              /\ audit' = audit]_vars

\* C8: in every reachable state no two tenants have the same subdomain and no
\* two users of the same tenant have the same email.
C8_UniqueSubdomainAndEmail ==
    /\ \A t1 \in DOMAIN tenants : \A t2 \in DOMAIN tenants :
           tenants[t1].subdomain = tenants[t2].subdomain => t1 = t2
    /\ \A u1 \in DOMAIN users : \A u2 \in DOMAIN users :
           (users[u1].tenantId = users[u2].tenantId
            /\ users[u1].email = users[u2].email) => u1 = u2

\* two signups passed the existence check for the same subdomain (one of them
\* because the check threw, or both before either created the tenant); one
\* created the tenant and the unique index rejected the other
C8_Witness ==
    \E r1 \in Slots : \E r2 \in Slots :
        /\ r1 # r2
        /\ reqs[r1].route \in SignupRoutes
        /\ reqs[r2].route \in SignupRoutes
        /\ reqs[r1].tenantDoc \in DOMAIN tenants
        /\ tenants[reqs[r1].tenantDoc].subdomain = reqs[r2].body.subdomain
        /\ reqs[r2].pc = "done"
        /\ "E11000" \in reqs[r2].faults

\* the tenant is between Tenant.create and User.create of a running signup
SignupInFlight(t) ==
    \E r \in Slots : reqs[r].pc = "createUser" /\ reqs[r].tenantDoc = t

\* C9: once signups have finished, in success or in failure, every stored
\* tenant has an admin user and every stored user references a stored tenant.
C9_NoPartialPair ==
    /\ \A t \in DOMAIN tenants :
           ~SignupInFlight(t) =>
               \E u \in DOMAIN users :
                   users[u].tenantId = t /\ users[u].role = "admin"
    /\ \A u \in DOMAIN users : users[u].tenantId \in DOMAIN tenants

(***************************************************************************)
(* Properties of the call lifecycle.                                       *)
(***************************************************************************)
\* this step is the provider's answer to a status poll of the call that the
\* previous request polled, and the provider reports the status it reported
\* to the previous request
SamePollAgain ==
    /\ reqs[Previous].pc = "done"
    /\ reqs[Previous].route = "calls.status"
    /\ reqs[Previous].provider # NoPayload
    /\ reqs[Live].pc = "poll"
    /\ reqs'[Live].pc = "done"
    /\ reqs[Live].callDoc = reqs[Previous].callDoc
    /\ reqs'[Live].provider.status = reqs[Previous].provider.status

CallUntouched(c) ==
    /\ calls'[c].events = calls[c].events
    /\ calls'[c].status = calls[c].status

\* C10 as stated: when two getStatus calls for the same Call run one after the
\* other and the provider reports the same status both times, the second
\* appends no event and leaves the stored status unchanged.
C10_SecondPollAppendsNothing ==
    [][SamePollAgain => CallUntouched(reqs[Live].callDoc)]_vars

\* C10 amended: the same, when the first of the two calls was answered with
\* success (its update, if any, was persisted).
C10_SecondPollAfterSuccess ==
    [][(SamePollAgain /\ reqs[Previous].reply.status = 200)
          => CallUntouched(reqs[Live].callDoc)]_vars

\* the first poll appended the event of the reported status, the second poll
\* of the same call got the same status and succeeded
C10_Witness ==
    /\ reqs[Previous].pc = "done" /\ reqs[Previous].route = "calls.status"
    /\ reqs[Previous].reply.status = 200
    /\ reqs[Live].pc = "done" /\ reqs[Live].route = "calls.status"
    /\ reqs[Live].reply.status = 200
    /\ reqs[Live].callDoc = reqs[Previous].callDoc
    /\ reqs[Live].callDoc # None
    /\ reqs[Previous].loaded # reqs[Previous].provider.status
    /\ reqs[Live].provider.status = reqs[Previous].provider.status
    /\ Len(calls[reqs[Live].callDoc].events) = 1
    /\ calls[reqs[Live].callDoc].events[1].type
           = <<"status", reqs[Live].provider.status>>

\* in this step the provider answers the status poll of the live request with
\* a status of the schema that differs from the stored one, and save() succeeds
ReconcileStep ==
    /\ reqs[Live].pc = "poll"
    /\ reqs'[Live].pc = "done"
    /\ reqs'[Live].provider # NoPayload
    /\ reqs'[Live].provider.status \in CallStatuses
    /\ reqs'[Live].provider.status # calls[reqs[Live].callDoc].status
    /\ reqs'[Live].faults \cap {"Call.save", "ValidationError"} = {}

\* C11: when getStatus obtains a status s that differs from the stored one it
\* appends exactly one event status.<s> carrying the provider payload, sets the
\* stored status to s and copies duration and recordingUrl when the provider
\* supplied them.
C11_ReconcileRule ==
    [][ReconcileStep =>
          LET c == reqs[Live].callDoc
              p == reqs'[Live].provider
          IN /\ calls'[c].events =
                    Append(calls[c].events,
                           [type |-> <<"status", p.status>>, timestamp |-> clock', data |-> p])
             /\ calls'[c].status = p.status
             /\ (p.duration # NoDuration => calls'[c].duration = p.duration)
             /\ (p.recordingUrl # "none" => calls'[c].recordingUrl = p.recordingUrl)
       ]_vars

\* C12: when the provider's status query fails for an existing Call of the
\* caller's tenant, getStatus answers with success and the stored view.
C12_StaleStatusOnProviderFailure ==
    \A r \in Slots :
        (/\ reqs[r].pc = "done"
         /\ reqs[r].route = "calls.status"
         /\ reqs[r].callDoc # None
         /\ "provider" \in reqs[r].faults)
        => /\ reqs[r].reply.status = 200
           /\ reqs[r].docs = {<<"call", reqs[r].callDoc>>}

(***************************************************************************)
(* Properties of the transcript cache.                                     *)
(***************************************************************************)
\* the live request is a transcript request that finds its Call and is
\* answered in this step
TranscriptStep ==
    /\ reqs[Live].pc = "handler"
    /\ reqs[Live].route = "calls.transcript"
    /\ reqs'[Live].pc = "done"
    /\ reqs'[Live].callDoc # None

\* C13: a successful getTranscript that obtained a transcript from the
\* provider leaves it stored on the Call; a stored transcript is never changed
\* or cleared by any later operation; and a getTranscript for a Call with a
\* stored transcript returns that content without contacting the provider.
C13_CachedTranscriptServed ==
    [][/\ \A c \in DOMAIN calls :
             calls[c].transcript # "none" => calls'[c].transcript = calls[c].transcript
       /\ (TranscriptStep /\ reqs'[Live].fetched # NoTranscript
                          /\ reqs'[Live].reply.status = 200) =>
             /\ JsonParse(calls'[reqs'[Live].callDoc].transcript) = reqs'[Live].fetched
             /\ reqs'[Live].sent = reqs'[Live].fetched
       /\ (TranscriptStep /\ calls[reqs'[Live].callDoc].transcript # "none") =>
             /\ ~reqs'[Live].asked
             /\ reqs'[Live].reply.status = 200
             /\ reqs'[Live].sent = JsonParse(calls[reqs'[Live].callDoc].transcript)
      ]_vars

\* the previous request fetched and stored the transcript, the live one of the
\* same Call was served the same content from the Call
C13_Witness ==
    /\ reqs[Previous].pc = "done" /\ reqs[Previous].route = "calls.transcript"
    /\ reqs[Previous].asked /\ reqs[Previous].reply.status = 200
    /\ reqs[Previous].fetched = "hello, bye"
    /\ reqs[Live].pc = "done" /\ reqs[Live].route = "calls.transcript"
    /\ reqs[Live].callDoc = reqs[Previous].callDoc
    /\ ~reqs[Live].asked
    /\ reqs[Live].sent = "hello, bye"

\* C14: when the provider has no transcript (or its request fails),
\* getTranscript on an existing Call of the caller's tenant answers with
\* success, a null transcript and the not-available-yet marker and stores
\* nothing; a getTranscript for a Call without a stored transcript contacts
\* the provider (again).
C14_UnavailableTranscript ==
    [][/\ (TranscriptStep /\ reqs'[Live].asked /\ reqs'[Live].fetched = NoTranscript) =>
             /\ reqs'[Live].reply = Reply(200, "none", "Transcript not available yet")
             /\ reqs'[Live].sent = NoTranscript
             /\ calls' = calls
             /\ audit' = audit
       /\ (TranscriptStep /\ calls[reqs'[Live].callDoc].transcript = "none") =>
             reqs'[Live].asked
      ]_vars

\* the previous request found no transcript at the provider; the live one of
\* the same Call asked the provider again and got one
C14_Witness ==
    /\ reqs[Previous].pc = "done" /\ reqs[Previous].route = "calls.transcript"
    /\ reqs[Previous].reply = Reply(200, "none", "Transcript not available yet")
    /\ reqs[Previous].asked
    /\ reqs[Live].pc = "done" /\ reqs[Live].route = "calls.transcript"
    /\ reqs[Live].callDoc = reqs[Previous].callDoc
    /\ reqs[Live].asked
    /\ reqs[Live].fetched = "hello"
    /\ calls[reqs[Live].callDoc].transcript = JsonStringify("hello")

(***************************************************************************)
(* Properties of createCall.                                               *)
(***************************************************************************)
\* the live createCall request is answered in this step
CreateStep ==
    /\ reqs[Live].pc = "handler"
    /\ reqs[Live].route = "calls.create"
    /\ reqs'[Live].pc = "done"

\* after the step the store holds the calls it held and exactly one more,
\* the record of this invocation
OneCallPersisted ==
    /\ \E n \in DOMAIN calls' :
          /\ n \notin DOMAIN calls
          /\ DOMAIN calls' = DOMAIN calls \cup {n}
          /\ calls'[n].ultravoxCallId = reqs'[Live].created.callId
          /\ calls'[n].status = (IF reqs'[Live].created.status = "none" THEN "queued"
                                 ELSE reqs'[Live].created.status)
          /\ calls'[n].tenantId = users[reqs[Live].userId].tenantId
          /\ calls'[n].userId = reqs[Live].userId
          /\ calls'[n].events = <<>>
    /\ \A c \in DOMAIN calls : calls'[c] = calls[c]

\* nothing of the invocation is kept
NothingPersisted ==
    /\ reqs'[Live].reply.status >= 500
    /\ calls' = calls
    /\ audit' = audit

\* C15 as stated: a failed provider request makes createCall fail with nothing
\* persisted; a successful one persists exactly one new Call with the
\* provider's call id and initial status (queued when none is reported), the
\* caller's tenant and user, and no events (the store being reachable).
C15_CreateCallOutcome ==
    [][(CreateStep /\ "Call.create" \notin reqs'[Live].faults) =>
          IF "provider" \in reqs'[Live].faults THEN NothingPersisted
          ELSE OneCallPersisted]_vars

\* C15 amended: the same, when the reported status is one of the schema's
\* and the store accepts the record; otherwise createCall fails with nothing
\* persisted, although the provider created the call.
C15_CreateCallOutcomeWhenStored ==
    [][CreateStep =>
          IF reqs'[Live].faults \cap {"provider", "ValidationError", "Call.create"} # {}
          THEN NothingPersisted
          ELSE OneCallPersisted]_vars

\* a call the provider reported as ringing is stored as ringing, without events
C15_Witness ==
    /\ reqs[Live].pc = "done" /\ reqs[Live].route = "calls.create"
    /\ reqs[Live].reply.status = 201
    /\ reqs[Live].created = Created("uv-new", "ringing")
    /\ reqs[Live].callDoc \in DOMAIN calls
    /\ calls[reqs[Live].callDoc].status = "ringing"
    /\ calls[reqs[Live].callDoc].ultravoxCallId = "uv-new"
    /\ calls[reqs[Live].callDoc].events = <<>>

(***************************************************************************)
(* Properties of the stored status and the event list.                     *)
(***************************************************************************)
TerminalStatuses == {"completed", "failed", "ended"}

\* position of a status in queued -> ringing -> in_progress -> terminal
Rank(status) ==
    CASE status = "queued" -> 1
      [] status = "ringing" -> 2
      [] status = "in_progress" -> 3
      [] OTHER -> 4

\* C16: over any sequence of getStatus calls the stored status of a Call never
\* moves to an earlier state of queued -> ringing -> in_progress -> {completed,
\* failed, ended}, and a terminal status never changes again.
C16_StatusMonotonic ==
    [][\A c \in DOMAIN calls :
          /\ Rank(calls'[c].status) >= Rank(calls[c].status)
          /\ calls[c].status \in TerminalStatuses => calls'[c].status = calls[c].status
      ]_vars

\* the events of a Call carry timestamps in non-decreasing order
Ordered(events) ==
    \A i, j \in 1..Len(events) : i < j => events[i].timestamp <= events[j].timestamp

\* one list is the other with events appended
IsPrefix(old, new) ==
    /\ Len(old) <= Len(new)
    /\ \A i \in 1..Len(old) : new[i] = old[i]

\* the part of C17 that holds: no step removes, reorders or rewrites a stored
\* event
EventsAppendOnly ==
    [][\A c \in DOMAIN calls : IsPrefix(calls[c].events, calls'[c].events)]_vars

\* C17: across any sequence and interleaving of createCall, getStatus and
\* getTranscript the event list of a Call in each later state has the event
\* list of every earlier state as a prefix, and the events appear in the order
\* of their timestamps.
C17_EventsAppendOnlyOrdered ==
    [][\A c \in DOMAIN calls :
          /\ IsPrefix(calls[c].events, calls'[c].events)
          /\ Ordered(calls'[c].events)
      ]_vars

(***************************************************************************)
(* Properties of the Audit Sink.                                           *)
(***************************************************************************)
\* the request being handled had an audit write fail in this step
AuditWriteFailed ==
    "AuditLog.create" \in reqs'[Live].faults \ reqs[Live].faults

\* the users a login of q may succeed as
LoginCandidates(q) ==
    {u \in (IF q.route = "login" THEN UsersByEmailInTenant(q.body.email, q.tenantId)
            ELSE UsersByEmail(q.body.email)) :
        comparePassword(u, q.body.password)}

\* what the operation of the request does when its audit write succeeds
SuccessOutcome(old, q) ==
    CASE old.pc = "idle" /\ q.route \in AuthenticatedRoutes ->
            /\ q.reply = Reply(403, "Access denied", MismatchMessage)
            /\ q.userId = None /\ ~q.ran
            /\ UNCHANGED <<tenants, users, calls>>
      [] q.route \in SignupRoutes ->
            /\ q.reply = Reply(201, "none", "none")
            /\ q.userDoc \in DOMAIN users /\ q.tenantDoc \in DOMAIN tenants
            /\ users[q.userDoc].tenantId = q.tenantDoc
            /\ q.issued = generateToken(q.userDoc, q.tenantDoc)
            /\ UNCHANGED <<tenants, users, calls>>
      [] q.route \in LoginRoutes ->
            /\ UNCHANGED <<tenants, users, calls>>
            /\ IF LoginCandidates(q) = {}
               THEN q.reply = InvalidCredentials /\ q.issued = NoToken
               ELSE /\ q.reply = Reply(200, "none", "none")
                    /\ q.userDoc \in LoginCandidates(q)
                    /\ q.issued = generateToken(q.userDoc, users[q.userDoc].tenantId)
      [] q.route = "calls.create" ->
            /\ q.reply = Reply(201, "none", "none")
            /\ DOMAIN calls' = DOMAIN calls \cup {q.callDoc}
            /\ q.callDoc \notin DOMAIN calls
            /\ calls'[q.callDoc].tenantId = q.tenantId
            /\ calls'[q.callDoc].ultravoxCallId = q.created.callId
            /\ UNCHANGED <<tenants, users>>
      [] q.route = "calls.status" ->
            /\ q.reply = Reply(200, "none", "none")
            /\ calls'[q.callDoc].status = "completed"
            /\ Len(calls'[q.callDoc].events) = Len(calls[q.callDoc].events) + 1
            /\ UNCHANGED <<tenants, users>>
      [] q.route = "tenant.branding.put" ->
            /\ q.reply = Reply(200, "none", "none")
            /\ tenants'[q.tenantId].branding = q.body.primaryColor
            /\ UNCHANGED <<users, calls>>
      [] OTHER -> FALSE

\* C18: logAudit never fails its caller: when the audit store write fails,
\* the operation that handed it the entry (signup, login, createCall, the
\* getStatus that sees the call completed, the branding update, the
\* tenant-mismatch rejection) ends with the outcome and the state changes of
\* its success, and the only difference is the audit entry that is missing;
\* the tenant-mismatch request is still answered 403.
C18_AuditFailureNeverFailsCaller ==
    [][AuditWriteFailed =>
          /\ reqs'[Live].pc = "done"
          /\ reqs'[Live].faults \ reqs[Live].faults = {"AuditLog.create"}
          /\ IsPrefix(audit, audit')
          /\ (reqs'[Live].route \notin SignupRoutes => audit' = audit)
          /\ (reqs'[Live].route \in SignupRoutes => Len(audit') <= Len(audit) + 1)
          /\ SuccessOutcome(reqs[Live], reqs'[Live])
      ]_vars

\* a tenant-mismatch request whose violation entry could not be written has
\* been answered 403 and the log is without the entry
C18_Witness ==
    /\ reqs[Live].pc = "done"
    /\ "AuditLog.create" \in reqs[Live].faults
    /\ CrossTenantRequest(reqs[Live])
    /\ reqs[Live].reply = Reply(403, "Access denied", MismatchMessage)
    /\ audit = SeedAudit

(***************************************************************************)
(* Properties of the call lookups.                                         *)
(***************************************************************************)
\* the handler of q (get-call, getStatus or getTranscript, reached with a
\* tenant resolved and a store that answers) was asked for a call id that is
\* not a Call of the caller's tenant
NotOwnCall(q) ==
    /\ q.route \in TranscriptRoutes
    /\ q.ran /\ q.pc = "done" /\ q.faults = {}
    /\ \/ q.body.callId \notin DOMAIN calls
       \/ calls[q.body.callId].tenantId # q.tenantId

CallNotFound == Reply(404, "Call not found", "none")

LoginAttempted(q) ==
    /\ q.route \in LoginRoutes /\ q.pc = "done"
    /\ q.body.email # "none" /\ q.body.password # "none"
    /\ (q.route = "login" => q.tenantId # None)
    /\ q.faults \cap {"User.findOne", "Tenant.findById"} = {}

\* the users carrying the email where the route looks for them
EmailScope(q) ==
    {u \in DOMAIN users :
        /\ users[u].email = q.body.email
        /\ (q.route = "login" => users[u].tenantId = q.tenantId)}

UnknownEmail(q) == EmailScope(q) = {}

InactiveUser(q) ==
    /\ EmailScope(q) # {}
    /\ \A u \in EmailScope(q) : ~users[u].isActive

WrongPassword(q) ==
    /\ \E u \in EmailScope(q) : users[u].isActive
    /\ \A u \in EmailScope(q) :
          users[u].isActive => ~comparePassword(u, q.body.password)

\* C20: a login that fails because the email does not exist in the tenant,
\* because the user is inactive or because the password is wrong gets the
\* same response in the three cases, 401 'Invalid credentials', and no token.
C20_FailedLoginUniform ==
    \A r \in SeqSlots :
        (LoginAttempted(reqs[r])
         /\ (UnknownEmail(reqs[r]) \/ InactiveUser(reqs[r]) \/ WrongPassword(reqs[r])))
        => /\ reqs[r].reply = Reply(401, "Invalid credentials", "none")
           /\ reqs[r].issued = NoToken

\* a login naming an inactive user of the resolved tenant has been refused
C20_Witness ==
    \E r \in SeqSlots :
        /\ LoginAttempted(reqs[r]) /\ InactiveUser(reqs[r])
        /\ reqs[r].route = "login"
        /\ reqs[r].reply = Reply(401, "Invalid credentials", "none")

(***************************************************************************)
(* Properties of the Tenant Resolver.                                      *)
(***************************************************************************)
\* the candidate as the specification words it: the header when present,
\* otherwise the first label of the host
FirstLabelCandidate(q) == IF q.hdr # "none" THEN q.hdr ELSE q.host[1]

\* the active tenants with this subdomain
ActiveTenants(subdomain) ==
    {t \in DOMAIN tenants : tenants[t].isActive /\ tenants[t].subdomain = subdomain}

\* q went through the resolver on a path that is not exempt
Resolved(q) == q.pc # "idle" /\ q.route \in AuthenticatedRoutes

\* a request left without tenant that got past authenticate on a
\* tenant-scoped route is answered 404 by requireTenant, handler not run
RequireTenantRejects(q) ==
    (q.tenantId = None /\ q.route \in RequireTenantRoutes /\ "User.findById" \notin q.faults)
    => /\ q.pc = "done" /\ ~q.ran
       /\ q.reply = Reply(404, "Tenant not found", "Invalid subdomain or tenant not active")

\* C21: on a path that is not exempt the resolver sets the tenant context to T
\* if and only if T is an active tenant whose subdomain is the candidate (the
\* header when present, otherwise the first label of the host); otherwise the
\* request has no tenant and requireTenant rejects it with 404.
C21_ResolverSetsActiveTenant ==
    \A r \in Slots : Resolved(reqs[r]) =>
        /\ \A t \in DOMAIN tenants :
              reqs[r].tenantId = t <=> t \in ActiveTenants(FirstLabelCandidate(reqs[r]))
        /\ (ActiveTenants(FirstLabelCandidate(reqs[r])) = {} => reqs[r].tenantId = None)
        /\ RequireTenantRejects(reqs[r])

\* C21 as amended: the same when the directory lookup answered, the first
\* label of the host being a candidate only for a host of two labels or more.
C21_ResolverSetsActiveTenantWhenAnswered ==
    \A r \in Slots :
        (/\ Resolved(reqs[r])
         /\ "Tenant.findOne" \notin reqs[r].faults
         /\ (reqs[r].hdr = "none" => Len(reqs[r].host) >= 2))
        => /\ \A t \in DOMAIN tenants :
                 reqs[r].tenantId = t <=> t \in ActiveTenants(FirstLabelCandidate(reqs[r]))
           /\ (ActiveTenants(FirstLabelCandidate(reqs[r])) = {} => reqs[r].tenantId = None)
           /\ RequireTenantRejects(reqs[r])

\* the header named acme while the host named beta, and acme was resolved;
\* before that a request naming the inactive tenant was rejected by requireTenant
C21_Witness ==
    /\ Resolved(reqs[Live]) /\ reqs[Live].hdr = "acme" /\ reqs[Live].host[1] = "beta"
    /\ reqs[Live].tenantId = 1
    /\ Resolved(reqs[Previous]) /\ reqs[Previous].hdr = "none"
    /\ reqs[Previous].host[1] = "old" /\ reqs[Previous].route = "calls.list"
    /\ reqs[Previous].tenantId = None /\ reqs[Previous].reply.status = 404

\* C22: without the explicit header, a host whose first label is localhost or
\* www gives no candidate and no tenant is resolved, even if an active tenant
\* with that subdomain exists.
C22_ReservedLabelsIgnored ==
    \A r \in Slots :
        (/\ Resolved(reqs[r])
         /\ reqs[r].hdr = "none"
         /\ reqs[r].host[1] \in {"localhost", "www"})
        => reqs[r].tenantId = None

(***************************************************************************)
(* Properties of the order of the checks of authenticate.                  *)
(***************************************************************************)
\* the first check of authenticate that q fails, "none" when it passes them
\* all up to the tenant-match check (the user lookup was answered)
FirstFailure(q) ==
    IF q.token.kind = "none" THEN "Authentication required"
    ELSE IF q.token.kind = "badsig" THEN "Invalid token"
    ELSE IF q.token.kind = "expired" THEN "Token expired"
    ELSE IF q.token.userId \notin DOMAIN users \/ ~users[q.token.userId].isActive
    THEN "Invalid or inactive user"
    ELSE "none"

\* C23: authenticate fails in a fixed order: no bearer credential gives 401
\* 'Authentication required'; otherwise a bad signature gives 401 'Invalid
\* token' and an expired token 401 'Token expired'; otherwise a user not found
\* or inactive gives 401 'Invalid or inactive user'; the tenant-match check is
\* reached only by requests that pass all of these, and none of these failures
\* attaches a user, writes an audit entry or runs the handler.
C23_AuthenticateOrder ==
    \A r \in SeqSlots :
        (Resolved(reqs[r]) /\ "User.findById" \notin reqs[r].faults) =>
            /\ FirstFailure(reqs[r]) # "none" =>
                  /\ reqs[r].pc = "done"
                  /\ reqs[r].reply = Reply(401, FirstFailure(reqs[r]), "none")
                  /\ reqs[r].userId = None /\ ~reqs[r].ran
                  /\ "AuditLog.create" \notin reqs[r].faults
            /\ reqs[r].reply = Reply(403, "Access denied", MismatchMessage) =>
                  FirstFailure(reqs[r]) = "none"

\* an expired token on a request whose host resolved a tenant has been
\* answered 'Token expired' and nothing was logged
C23_Witness ==
    \E r \in SeqSlots :
        /\ Resolved(reqs[r]) /\ reqs[r].token.kind = "expired"
        /\ reqs[r].tenantId # None
        /\ reqs[r].reply = Reply(401, "Token expired", "none")
        /\ reqs[r].userId = None /\ ~reqs[r].ran
        /\ audit = SeedAudit

(***************************************************************************)
(* Properties of requireAdmin.                                             *)
(***************************************************************************)
\* q carries an authenticated user whose role is admin
ByAdmin(q) == q.userId # None /\ users[q.userId].role = "admin"

AdminRequired == Reply(403, "Access denied", "Admin role required")

\* C24: the admin-only operations (branding update, audit-log listing, user
\* listing) never run for a request without an authenticated user or whose
\* user is not an admin: a user that is not an admin is answered 403 by
\* requireAdmin, and no step of such a request changes the stores.
C24_AdminOnly ==
    [][\A r \in SeqSlots :
          LET q == reqs'[r] IN
          (q.route \in RequireAdminRoutes /\ ~ByAdmin(q)) =>
              /\ ~q.ran
              /\ q.docs = {}
              /\ (q.userId # None => q.pc = "done" /\ q.reply = AdminRequired)
              /\ q.reply.status # 200
              /\ UNCHANGED <<tenants, users, calls>>
      ]_vars

\* a branding update by a user of role user has been refused by requireAdmin
\* and the branding is as it was
C24_Witness ==
    \E r \in SeqSlots :
        /\ reqs[r].route = "tenant.branding.put"
        /\ reqs[r].userId # None /\ users[reqs[r].userId].role = "user"
        /\ reqs[r].reply = AdminRequired /\ ~reqs[r].ran
        /\ tenants = SeedTenants

\* C25: the Forbidden response for a tenant mismatch and the Forbidden
\* response for an insufficient role are the same to the caller (status and
\* outward message), so that the response does not tell which check failed.
C25_ForbiddenIdentical ==
    \A r, s \in Slots :
        (reqs[r].reply.status = 403 /\ reqs[s].reply.status = 403)
        => reqs[r].reply = reqs[s].reply

(***************************************************************************)
(* Properties of the status report.                                        *)
(***************************************************************************)
\* in this step the provider answers the status poll of the live request with
\* a status that differs from the stored one, and the store does not fail
ReportStep ==
    /\ reqs[Live].pc = "poll"
    /\ reqs'[Live].pc = "done"
    /\ reqs'[Live].provider # NoPayload
    /\ reqs'[Live].provider.status # calls[reqs[Live].callDoc].status
    /\ "Call.save" \notin reqs'[Live].faults

\* C26: there is no transition validation: whenever the provider answers
\* getStatus with a status s that differs from the stored one, the stored
\* status becomes s whatever it was before, also when s skips states, moves
\* backwards or is none of queued, ringing, in_progress, completed, failed,
\* ended; the report is never rejected.
C26_AnyReportStored ==
    [][ReportStep =>
          /\ calls'[reqs[Live].callDoc].status = reqs'[Live].provider.status
          /\ reqs'[Live].reply.status = 200
      ]_vars

\* C26 as amended: the same for every s among the six statuses of the schema,
\* in any order; a status outside them fails the validation of save(), the
\* request is answered 500 and the stored Call is unchanged.
C26_AnySchemaStatusStored ==
    [][ReportStep =>
          LET c == reqs[Live].callDoc
              s == reqs'[Live].provider.status
          IN IF s \in CallStatuses
             THEN calls'[c].status = s /\ reqs'[Live].reply.status = 200
             ELSE calls'[c] = calls[c] /\ reqs'[Live].reply = errorHandler
      ]_vars

\* a call stored as completed has been taken back to queued by the next poll
C26_Witness ==
    /\ reqs[Live].pc = "done" /\ reqs[Live].route = "calls.status"
    /\ reqs[Live].callDoc # None
    /\ reqs[Live].loaded = "completed"
    /\ reqs[Live].provider.status = "queued"
    /\ calls[reqs[Live].callDoc].status = "queued"
    /\ Len(calls[reqs[Live].callDoc].events) = 2

(***************************************************************************)
(* Properties of the call.completed audit entry.                           *)
(***************************************************************************)
\* the live request's status poll ends in this step
PollEnds == reqs[Live].pc = "poll" /\ reqs'[Live].pc = "done"

\* this step appends a call.completed entry to the audit log
CompletedLogged ==
    /\ Len(audit') = Len(audit) + 1
    /\ audit'[Len(audit')].action = "call.completed"

\* this step hands an entry to the Audit Sink: it is stored, or its write fails
EntryEmitted ==
    \/ Len(audit') = Len(audit) + 1
    \/ "AuditLog.create" \in reqs'[Live].faults \ reqs[Live].faults

\* C27: a call.completed audit entry with the duration is emitted exactly when
\* a getStatus reconciliation changes the stored status to completed, and only
\* with the updated Call persisted; never by a getStatus that finds the stored
\* status completed already, never when persisting the Call failed.
C27_CompletedEntry ==
    [][/\ CompletedLogged =>
             /\ PollEnds
             /\ audit' = Append(audit,
                    [tenantId |-> reqs[Live].tenantId, userId |-> reqs[Live].userId,
                     action |-> "call.completed",
                     details |-> [callId |-> reqs[Live].callDoc,
                                  duration |-> reqs'[Live].provider.duration]])
       /\ PollEnds =>
             LET c == reqs[Live].callDoc IN
             EntryEmitted <=>
                 /\ calls[c].status # "completed"
                 /\ calls'[c].status = "completed"
                 /\ reqs'[Live].faults \cap {"Call.save", "ValidationError"} = {}
      ]_vars

\* a poll found the call completed at the provider, stored it and logged it
C27_Witness ==
    /\ reqs[Live].pc = "done" /\ reqs[Live].route = "calls.status"
    /\ reqs[Live].callDoc # None
    /\ reqs[Live].loaded # "completed"
    /\ calls[reqs[Live].callDoc].status = "completed"
    /\ Len(audit) > Len(SeedAudit)
    /\ audit[Len(audit)].action = "call.completed"
    /\ audit[Len(audit)].details.callId = reqs[Live].callDoc
    /\ audit[Len(audit)].details.duration = reqs[Live].provider.duration

(***************************************************************************)
(* Properties of concurrent status polls.                                  *)
(***************************************************************************)
\* C28: a Call is never left half-updated: in every reachable state, under any
\* interleaving of concurrent getStatus calls for the same Call and whatever
\* fails, a Call with events has the status named by its last event, and a
\* Call without events has its creation status.
C28_StatusMatchesLastEvent ==
    \A c \in DOMAIN calls :
        IF calls[c].events = <<>>
        THEN c \in DOMAIN SeedCalls /\ calls[c].status = SeedCalls[c].status
        ELSE /\ calls[c].events[Len(calls[c].events)].type = <<"status", calls[c].status>>
             /\ calls[c].events[Len(calls[c].events)].data.status = calls[c].status

\* two overlapping polls of a call have both saved, the one that pushed its
\* event first saving last
C28_Witness ==
    \E c \in DOMAIN calls :
        /\ Len(calls[c].events) = 2
        /\ calls[c].events[1].timestamp > calls[c].events[2].timestamp
        /\ calls[c].status = calls[c].events[2].data.status
        /\ calls[c].status # calls[c].events[1].data.status

\* in this step slot r saves its status change while the poll in slot o, which
\* loaded the same Call in the same status and got the same status from the
\* provider, has already stored the change
OverlapSecondSave(r, o) ==
    /\ r # o
    /\ reqs[r].pc = "save" /\ reqs'[r].pc = "done"
    /\ reqs[o].pc = "done" /\ reqs[o].route = "calls.status"
    /\ reqs[o].reply.status = 200
    /\ reqs[o].callDoc = reqs[r].callDoc
    /\ reqs[o].loaded = reqs[r].loaded
    /\ reqs[o].provider.status = reqs[r].provider.status
    /\ reqs[o].provider.status # reqs[o].loaded
    /\ calls[reqs[r].callDoc].status = reqs[r].provider.status

\* C29: when two getStatus calls for the same Call overlap (both load the Call
\* before either saves) and both get the same new status from the provider,
\* the event list gains exactly one event for the change and at most one
\* call.completed audit entry is emitted: the second save adds nothing.
C29_OverlapOneEvent ==
    [][\A r, o \in Slots :
          OverlapSecondSave(r, o) =>
              /\ calls'[reqs[r].callDoc].events = calls[reqs[r].callDoc].events
              /\ audit' = audit
      ]_vars

(***************************************************************************)
(* Properties of the failed-login audit entry.                             *)
(***************************************************************************)
\* in this step the login in slot r is refused with 'Invalid credentials'
\* and the audit store does not fail
LoginRefused(r) ==
    /\ reqs[r].pc = "idle" /\ reqs'[r].pc = "done"
    /\ reqs'[r].route \in LoginRoutes
    /\ reqs'[r].reply = Reply(401, "Invalid credentials", "none")
    /\ "AuditLog.create" \notin reqs'[r].faults

\* C30: every failed login (unknown email, inactive user, wrong password)
\* appends exactly one audit entry with action user.failed_login, also when no
\* tenant id is known for the request.
C30_FailedLoginLogged ==
    [][\A r \in SeqSlots :
          LoginRefused(r) =>
              /\ Len(audit') = Len(audit) + 1
              /\ audit'[Len(audit')].action = "user.failed_login"
              /\ audit'[Len(audit')].details.email = reqs'[r].body.email
      ]_vars

====
